---- MODULE Spec2Model ----
(***************************************************************************)
(* The component installation planner of gpui-workbench:                   *)
(*   crates/registry/src/plan.rs   generate_plan, DefaultLayout, checksum  *)
(*   apps/cli/src/main.rs          cmd_add, cmd_apply, apply_plan,         *)
(*                                 apply_mutation, scan_existing_files     *)
(*                                                                         *)
(* Text is a sequence of symbols (TLA+ strings); a format! call is the     *)
(* concatenation of its literal pieces and its arguments.  A path is the   *)
(* sequence of its components (PathBuf compares component-wise); a         *)
(* component is the sequence of its dot-separated segments, so that        *)
(* "dialog.rs" is <<"dialog", "rs">> and file_name / with_extension act on *)
(* it the way std::path does.                                              *)
(***************************************************************************)
EXTENDS Integers, Sequences, FiniteSets, TLC

\* ------------------------------------------------------------------ bounds

\* longest required_files list of a registry entry
MaxFiles == 2

\* most paths in the existing_files snapshot handed to generate_plan
MaxExisting == 2

\* ------------------------------------------------------------------- text

RECURSIVE Intersperse(_, _)
Intersperse(seq, sep) ==
    IF Len(seq) <= 1 THEN seq
    ELSE <<seq[1], sep>> \o Intersperse(Tail(seq), sep)

\* the text of one path component: its segments joined by "."
NameStr(c) == Intersperse(c, ".")

\* the text of a path: its components joined by "/"
RECURSIVE PathStr(_)
PathStr(p) ==
    IF p = <<>> THEN <<>>
    ELSE IF Len(p) = 1 THEN NameStr(p[1])
    ELSE NameStr(p[1]) \o <<"/">> \o PathStr(Tail(p))

\* str::to_lowercase on the component names of the model
to_lowercase(s) ==
    CASE s = "Dialog" -> "dialog"
      [] s = "DIALOG" -> "dialog"
      [] s = "Tabs"   -> "tabs"
      [] s = "TABS"   -> "tabs"
      [] s = "Select" -> "select"
      [] OTHER        -> s

\* str::contains: pat occurs in text as a contiguous run of symbols
contains(text, pat) ==
    \E k \in 0..(Len(text) - Len(pat)) :
        \A j \in 1..Len(pat) : text[k + j] = pat[j]

\* the symbols whose last character is a line feed
NewlineTerminated == {"\n", "::*;\n"}

\* no text is held to end with a line feed
never_ends_with_newline(text) == FALSE

\* str::ends_with('\n')
ends_with_newline(text) ==
    Len(text) > 0 /\ text[Len(text)] \in NewlineTerminated

\* ------------------------------------------------------------------ paths

\* the ".." component, for which Path::file_name returns None
ParentDirComp == <<"..">>

\* Path::file_name is Some: the path has a final component that is not ".."
HasFileName(p) == Len(p) > 0 /\ p[Len(p)] # ParentDirComp

\* Path::file_name, where it is Some
FileName(p) == p[Len(p)]

\* PathBuf::join(dir, name) for a relative name of at most one component;
\* joining the empty string adds no component
join(dir, name) == IF name = <<>> THEN dir ELSE Append(dir, name)

\* Path::parent
Parent(p) == SubSeq(p, 1, Len(p) - 1)

\* Path::with_extension("provenance.json"): the file name keeps its stem
\* (everything before its last dot) and gets the new extension; a path
\* without a file name is returned unchanged
with_extension_provenance(p) ==
    IF ~HasFileName(p) THEN p
    ELSE LET f    == FileName(p)
             stem == IF Len(f) > 1 THEN SubSeq(f, 1, Len(f) - 1) ELSE f
         IN  Append(Parent(p), stem \o <<"provenance", "json">>)

\* ----------------------------------------------------------- DefaultLayout

\* project_root.join("src/shared/ui")
SharedUiDir(root) == root \o << <<"src">>, <<"shared">>, <<"ui">> >>

\* DefaultLayout::name
layout_name == "default"

\* one directory for every component
component_dir_shared(root, component_name) ==
    join(SharedUiDir(root), <<"components">>)

\* DefaultLayout::component_dir
component_dir(root, component_name) ==
    join(SharedUiDir(root), <<to_lowercase(component_name)>>)

\* DefaultLayout::module_file
module_file(root) == join(SharedUiDir(root), <<"mod", "rs">>)

\* DefaultLayout::export_line
export_line_upper(component_name) == <<"pub mod ", component_name, ";">>

export_line(component_name) ==
    <<"pub mod ", to_lowercase(component_name), ";">>

\* ---------------------------------------------------------------- checksum

\* The symbols text is made of.  content.bytes() is modelled by one code per
\* symbol: its position in this list.  (The backquotes of the source's
\* literals are written as single quotes.)
Alphabet ==
    << "\n", "/", ".", "..", " v", ";", "::*;\n",
       "// Component: ", "\n// Source: ",
       "\n// This file was installed by 'gpui add ", "'\n\npub use ",
       "//! ", " component module.\n\nmod ", ";\npub use ",
       "pub mod ", "// ", "old",
       "Dialog", "dialog", "Tabs", "tabs", "0.1.0",
       "crates", "components", "src", "vendor", "rs", "txt", "mod",
       "provenance", "json",
       "installed_by: ", "gpui-cli", "license: ", "Apache-2.0 OR MIT",
       "modifications: ", "Installed via gpui add ", "source: " >>

SymbolCode(s) == CHOOSE i \in 1..Len(Alphabet) : Alphabet[i] = s

\* a 64-bit value is eight 8-bit limbs, least significant first
FnvOffsetBasis == <<37, 35, 34, 132, 228, 156, 242, 203>>

\* 0x100000001b3 = 2^40 + 0x1b3
FnvPrimeLow == 435

FnvPrimeShiftLimbs == 5

RECURSIVE BitXor(_, _, _)
BitXor(a, b, bits) ==
    IF bits = 0 THEN 0
    ELSE (((a % 2) + (b % 2)) % 2) + (2 * BitXor(a \div 2, b \div 2, bits - 1))

\* hash.wrapping_mul(0x100000001b3): limb by limb from limb k on with carry,
\* the limbs above the 64th dropped (t is the product at limb k, bound once)
RECURSIVE MulPrime(_, _, _)
MulPrime(h, k, carry) ==
    IF k > 8 THEN <<>>
    ELSE LET shifted == IF k > FnvPrimeShiftLimbs
                        THEN h[k - FnvPrimeShiftLimbs] ELSE 0
         IN  CHOOSE limbs \in
                 {<<t % 256>> \o MulPrime(h, k + 1, t \div 256) :
                     t \in {(h[k] * FnvPrimeLow) + shifted + carry}} : TRUE

wrapping_mul_prime(h) == MulPrime(h, 1, 0)

\* format!("{:016x}", hash): sixteen hex digits, most significant first
Hex16(hash) ==
    [d \in 1..16 |->
        LET limb == hash[8 - ((d - 1) \div 2)]
        IN  IF d % 2 = 1 THEN limb \div 16 ELSE limb % 16]

\* one turn of the loop of simple_checksum: hash ^= byte;
\* hash = hash.wrapping_mul(prime)
FnvStep(hash, byte) ==
    CHOOSE next \in
        {wrapping_mul_prime(x) : x \in {[hash EXCEPT ![1] = BitXor(@, byte, 8)]}} :
        TRUE

\* the hash after the loop has consumed the first n symbols of content
RECURSIVE FnvFold(_, _)
FnvFold(content, n) ==
    IF n = 0 THEN FnvOffsetBasis
    ELSE CHOOSE next \in
             {FnvStep(hash, SymbolCode(content[n])) :
                 hash \in {FnvFold(content, n - 1)}} : TRUE

simple_checksum_first_symbol(content) ==
    Hex16(FnvFold(content, IF Len(content) > 0 THEN 1 ELSE 0))

simple_checksum(content) == Hex16(FnvFold(content, Len(content)))

\* --------------------------------------------------------------- plan types

\* Operation, FileAction, MutationStrategy with their serde names
Operations == {"add", "update", "remove"}

FileActions == {"create", "modify", "delete"}

MutationStrategies ==
    {"write_file", "append_export", "insert_use", "replace_section", "delete_file"}

FileMutation(action, file_path, strategy, content, description) ==
    [action |-> action, file_path |-> file_path, strategy |-> strategy,
     content |-> content, description |-> description]

Conflict(file_path, reason) == [file_path |-> file_path, reason |-> reason]

ProvenanceAction(file_path, source, license, modifications) ==
    [file_path |-> file_path, source |-> source, license |-> license,
     modifications |-> modifications]

\* BTreeMap::insert
MapInsert(map, k, v) ==
    [x \in (DOMAIN map) \cup {k} |-> IF x = k THEN v ELSE map[x]]

EmptyMap == [x \in {} |-> <<>>]

\* no plan is held to have conflicts
never_conflicts(plan) == FALSE

\* PlanContract::has_conflicts
has_conflicts(plan) == plan.conflicts # <<>>

\* PlanContract::mutation_count
mutation_count(plan) == Len(plan.mutations)

\* ------------------------------------------------------------ generate_plan

\* the file name a required_files entry is installed under
source_filename_first_component(entry, source_file) ==
    IF Len(source_file) > 0 THEN source_file[1]
    ELSE <<to_lowercase(entry.name), "rs">>

source_filename(entry, source_file) ==
    IF HasFileName(source_file) THEN FileName(source_file)
    ELSE <<to_lowercase(entry.name), "rs">>

\* the re-export stub written for a required_files entry
source_content(entry, source_file) ==
    <<"// Component: ", entry.name, " v", entry.version, "\n// Source: ">>
    \o PathStr(source_file)
    \o <<"\n// This file was installed by 'gpui add ", to_lowercase(entry.name),
         "'\n\npub use ", to_lowercase(entry.name), "::*;\n">>

\* the component's own mod.rs
mod_content(entry) ==
    <<"//! ", entry.name, " component module.\n\nmod ",
      to_lowercase(entry.name), ";\npub use ", to_lowercase(entry.name),
      "::*;\n">>

\* step 1, conflict detection for one source file: existing_files.contains
source_conflicts_once_per_path(conflicts, existing_files, target_path, name) ==
    IF target_path \in existing_files
       /\ \A k \in 1..Len(conflicts) : conflicts[k].file_path # target_path
    THEN Append(conflicts,
           Conflict(target_path,
             <<"File already exists at target path; would overwrite existing ">>
             \o NameStr(name)))
    ELSE conflicts

source_conflicts(conflicts, existing_files, target_path, name) ==
    IF target_path \in existing_files
    THEN Append(conflicts,
           Conflict(target_path,
             <<"File already exists at target path; would overwrite existing ">>
             \o NameStr(name)))
    ELSE conflicts

\* step 1, the checksum recorded for one source file
source_checksums_unless_conflict(checksums, existing_files, target_path, content) ==
    IF target_path \in existing_files THEN checksums
    ELSE MapInsert(checksums, target_path, simple_checksum(content))

source_checksums(checksums, existing_files, target_path, content) ==
    MapInsert(checksums, target_path, simple_checksum(content))

\* step 1, the Create mutation pushed for one source file
source_mutations_skip_conflicting(mutations, existing_files, entry, target_path, content) ==
    IF target_path \in existing_files THEN mutations
    ELSE Append(mutations,
           FileMutation("create", target_path, "write_file", content,
             <<"Install ", entry.name, " component source">>))

source_mutations(mutations, existing_files, entry, target_path, content) ==
    Append(mutations,
      FileMutation("create", target_path, "write_file", content,
        <<"Install ", entry.name, " component source">>))

\* step 1, the loop over entry.required_files from index i on; acc holds the
\* mutations, conflicts and checksums built so far
RECURSIVE SourceLoop(_, _, _, _, _)
SourceLoop(entry, dir, existing_files, i, acc) ==
    IF i > Len(entry.required_files) THEN acc
    ELSE LET source_file == entry.required_files[i]
             name        == source_filename(entry, source_file)
             target_path == join(dir, name)
             content     == source_content(entry, source_file)
         IN  SourceLoop(entry, dir, existing_files, i + 1,
               [conflicts |-> source_conflicts(acc.conflicts, existing_files,
                                               target_path, name),
                checksums |-> source_checksums(acc.checksums, existing_files,
                                               target_path, content),
                mutations |-> source_mutations(acc.mutations, existing_files,
                                               entry, target_path, content)])

\* step 4, one ProvenanceAction per required_files entry
provenance_actions_of(entry, dir) ==
    [i \in 1..Len(entry.required_files) |->
        LET f == entry.required_files[i]
            target_filename == IF HasFileName(f) THEN FileName(f) ELSE <<>>
        IN  ProvenanceAction(join(dir, target_filename), PathStr(f),
                             <<"Apache-2.0 OR MIT">>,
                             <<"Installed via gpui add ", to_lowercase(entry.name)>>)]

\* generate_plan(entry, &DefaultLayout::new(root), existing_files)
generate_plan(entry, root, existing_files) ==
    LET dir      == component_dir(root, entry.name)
        sources  == SourceLoop(entry, dir, existing_files, 1,
                      [mutations |-> <<>>, conflicts |-> <<>>, checksums |-> EmptyMap])
        mod_path == join(dir, <<"mod", "rs">>)
        checksums == MapInsert(sources.checksums, mod_path,
                               simple_checksum(mod_content(entry)))
        conflicts == IF mod_path \in existing_files
                     THEN Append(sources.conflicts,
                            Conflict(mod_path,
                              <<"Component mod.rs already exists; would overwrite">>))
                     ELSE sources.conflicts
        mutations == sources.mutations
                     \o << FileMutation("create", mod_path, "write_file",
                             mod_content(entry),
                             <<"Create ", entry.name, " module file">>),
                           FileMutation("modify", module_file(root), "append_export",
                             export_line(entry.name),
                             <<"Add ", entry.name, " export to shared UI module">>) >>
    IN  [operation          |-> "add",
         component_name     |-> entry.name,
         component_version  |-> entry.version,
         mutations          |-> mutations,
         conflicts          |-> conflicts,
         provenance_actions |-> provenance_actions_of(entry, dir),
         file_checksums     |-> checksums,
         target_layout      |-> layout_name]

\* ------------------------------------------------------------ serialization

\* the segments of the model's paths in byte order (str's Ord)
SegmentsInOrder ==
    << "..", "components", "crates", "dialog", "json", "mod", "old", "proj",
       "provenance", "rs", "shared", "src", "tabs", "txt", "ui", "vendor" >>

SegRank(s) == CHOOSE i \in 1..Len(SegmentsInOrder) : SegmentsInOrder[i] = s

\* Ord on two components, segment by segment
RECURSIVE CompLess(_, _)
CompLess(a, b) ==
    IF b = <<>> THEN FALSE
    ELSE IF a = <<>> THEN TRUE
    ELSE IF a[1] = b[1] THEN CompLess(Tail(a), Tail(b))
    ELSE SegRank(a[1]) < SegRank(b[1])

\* Ord on PathBuf: component by component
RECURSIVE PathLess(_, _)
PathLess(p, q) ==
    IF q = <<>> THEN FALSE
    ELSE IF p = <<>> THEN TRUE
    ELSE IF p[1] = q[1] THEN PathLess(Tail(p), Tail(q))
    ELSE CompLess(p[1], q[1])

\* every order in which the keys of a map can be listed
KeyPermutations(map) ==
    LET n == Cardinality(DOMAIN map)
    IN  {ord \in [1..n -> DOMAIN map] :
            \A i, j \in 1..n : i # j => ord[i] # ord[j]}

\* an iteration order that is not fixed by the content (a hash map's)
unordered_key_orders(map) == KeyPermutations(map)

\* the orders BTreeMap<PathBuf, String>::iter can yield: ascending keys
btree_key_orders(map) ==
    {ord \in KeyPermutations(map) :
        \A i \in 1..(Len(ord) - 1) : PathLess(ord[i], ord[i + 1])}

\* serde_json::to_string_pretty of a PlanContract whose file_checksums are
\* listed in the order ord: the fields in declaration order, each path as
\* its text
MutationJson(m) ==
    << <<"action", m.action>>, <<"file_path", PathStr(m.file_path)>>,
       <<"strategy", m.strategy>>, <<"content", m.content>>,
       <<"description", m.description>> >>

ConflictJson(c) ==
    << <<"file_path", PathStr(c.file_path)>>, <<"reason", c.reason>> >>

ProvenanceJson(pa) ==
    << <<"file_path", PathStr(pa.file_path)>>, <<"source", pa.source>>,
       <<"license", pa.license>>, <<"modifications", pa.modifications>> >>

PlanJson(plan, ord) ==
    << <<"operation", plan.operation>>,
       <<"component_name", plan.component_name>>,
       <<"component_version", plan.component_version>>,
       <<"mutations",
         [i \in 1..Len(plan.mutations) |-> MutationJson(plan.mutations[i])]>>,
       <<"conflicts",
         [i \in 1..Len(plan.conflicts) |-> ConflictJson(plan.conflicts[i])]>>,
       <<"provenance_actions",
         [i \in 1..Len(plan.provenance_actions) |->
            ProvenanceJson(plan.provenance_actions[i])]>>,
       <<"file_checksums",
         [i \in 1..Len(ord) |-> <<PathStr(ord[i]), plan.file_checksums[ord[i]]>>]>>,
       <<"target_layout", plan.target_layout>> >>

\* Option<T> and Result<T, _>: None (or Err) is the empty sequence, Some(x)
\* (or Ok(x)) the sequence holding x
None == <<>>

Some(x) == <<x>>

\* a path component that is not valid UTF-8 (a byte 0xFF in a file name)
InvalidUtf8 == <<"0xFF">>

\* Path::to_str is Some: serde writes a PathBuf as a string only then
valid_utf8(path) == \A i \in 1..Len(path) : path[i] # InvalidUtf8

\* the PathBuf values a plan holds
PlanPaths(plan) ==
    {plan.mutations[i].file_path : i \in 1..Len(plan.mutations)}
    \cup {plan.conflicts[i].file_path : i \in 1..Len(plan.conflicts)}
    \cup {plan.provenance_actions[i].file_path : i \in 1..Len(plan.provenance_actions)}
    \cup DOMAIN plan.file_checksums

\* PlanContract::to_json: the results the serializer can return for plan,
\* Ok with a text or Err when a path has no UTF-8 text
to_json(plan) ==
    IF \A path \in PlanPaths(plan) : valid_utf8(path)
    THEN {Some(PlanJson(plan, ord)) : ord \in btree_key_orders(plan.file_checksums)}
    ELSE {None}

\* ------------------------------------------------------------------ inputs

\* the component names of the model (Dialog and Tabs of generate_registry)
Names == {"Dialog", "Tabs"}

Versions == {"0.1.0"}

\* required_files entries: the registry's own "crates/components/src/dialog.rs",
\* a second source with the same file name, a source named like the
\* component's module file, one differing only in its extension, and one
\* with no final component ("src/..")
SourceFiles ==
    { << <<"crates">>, <<"components">>, <<"src">>, <<"dialog", "rs">> >>,
      << <<"vendor">>, <<"dialog", "rs">> >>,
      << <<"src">>, <<"mod", "rs">> >>,
      << <<"src">>, <<"dialog", "txt">> >>,
      << <<"src">>, ParentDirComp >> }

SeqsUpTo(S, n) == UNION {[1..k -> S] : k \in 0..n}

\* RegistryEntry, with the fields generate_plan reads
Entries ==
    [name : Names, version : Versions, required_files : SeqsUpTo(SourceFiles, MaxFiles)]

\* --target-dir
TargetDirs == { << <<"proj">> >> }

\* paths a project may already hold: files of the component directory and
\* the shared module file
ExistingChoices(root, name) ==
    {join(component_dir(root, name), f) :
        f \in { <<"dialog", "rs">>, <<"tabs", "rs">>, <<"mod", "rs">>,
                <<"dialog", "txt">> }}
    \cup {module_file(root)}

\* ------------------------------------------------------------------- state

VARIABLES
    registry,        \* RegistryIndex.entries: lowercase name -> RegistryEntry
    target_dir,      \* the project root the layout is built on
    existing_files,  \* the snapshot of existing paths given to generate_plan
    calls,           \* the generate_plan calls made so far: input and result
    files,           \* the filesystem's regular files: path -> content
    dirs,            \* the filesystem's directories
    faults,          \* paths on which the operating system fails a write
    plan_file,       \* what the plan file given to `apply` holds
    pc,              \* where the running command stands
    cmd,             \* the running command
    plan,            \* the plan being applied
    idx,             \* apply_plan's loop index (0-based, as in the source)
    attempted,       \* the mutation indices apply_mutation was called for
    result,          \* apply_plan's return value
    output,          \* the envelope printed on stdout
    exit_code,       \* the process's exit status
    before,          \* the filesystem as the running command found it
    log              \* the finished commands, oldest first

genVars == <<registry, target_dir, existing_files, calls>>

cliVars == <<files, dirs, faults, plan_file, pc, cmd, plan, idx, attempted,
             result, output, exit_code, before, log>>

vars == <<registry, target_dir, existing_files, calls, files, dirs, faults,
          plan_file, pc, cmd, plan, idx, attempted, result, output, exit_code,
          before, log>>

\* no command is running
NoCommand == "none"

\* RegistryIndex::register on an index
register(index, entry) == MapInsert(index, to_lowercase(entry.name), entry)

\* looking a name up as it is written, in whatever casing
get_exact(index, name) == IF name \in DOMAIN index THEN Some(index[name]) ELSE None

\* RegistryIndex::get
get(index, name) ==
    IF to_lowercase(name) \in DOMAIN index THEN Some(index[to_lowercase(name)])
    ELSE None

\* a filesystem: its regular files with their content, and its directories
FileSystem(f, d) == [files |-> f, dirs |-> d]

\* no command has run and the filesystem holds the project root only
CliAtRest ==
    /\ files = EmptyMap
    /\ dirs = {target_dir}
    /\ faults = EmptyMap
    /\ plan_file = None
    /\ pc = "idle"
    /\ cmd = NoCommand
    /\ plan = None
    /\ idx = 0
    /\ attempted = <<>>
    /\ result = None
    /\ output = None
    /\ exit_code = None
    /\ before = FileSystem(files, dirs)
    /\ log = <<>>

\* ----------------------------------------------- generate_plan, called directly

BoundedSubsets(S, n) == {x \in SUBSET S : Cardinality(x) <= n}

Init ==
    /\ \E e \in Entries : registry = register(EmptyMap, e)
    /\ target_dir \in TargetDirs
    /\ \E k \in DOMAIN registry :
          existing_files \in
             BoundedSubsets(ExistingChoices(target_dir, registry[k].name), MaxExisting)
    /\ calls = <<>>
    /\ CliAtRest

\* a caller generates a plan for a registered entry and serializes it
Generate ==
    /\ Len(calls) < 2
    /\ \E k \in DOMAIN registry :
         \E p \in {generate_plan(registry[k], target_dir, existing_files)} :
            \E json \in to_json(p) :
               calls' = Append(calls,
                          [entry |-> registry[k], root |-> target_dir,
                           existing_files |-> existing_files,
                           plan |-> p, json |-> json])
    /\ UNCHANGED <<registry, target_dir, existing_files>>
    /\ UNCHANGED cliVars

\* between two calls the project is emptied: the snapshot changes
ProjectEmptied ==
    /\ Len(calls) = 1
    /\ existing_files # {}
    /\ existing_files' = {}
    /\ UNCHANGED <<registry, target_dir, calls>>
    /\ UNCHANGED cliVars

Next == Generate \/ ProjectEmptied

Spec == Init /\ [][Next]_vars

\* ------------------------------------------------- claims on generate_plan

SameInputs(a, b) ==
    /\ a.entry = b.entry
    /\ a.root = b.root
    /\ a.existing_files = b.existing_files

\* C1: two generate_plan calls with the same entry, layout and
\* existing_files return plans that are equal field by field, and the two
\* plans serialize to the same JSON text.
C1_Determinism ==
    \A i, j \in 1..Len(calls) :
        SameInputs(calls[i], calls[j])
        => /\ calls[i].plan = calls[j].plan
           /\ calls[i].json = calls[j].json

\* two calls on the same inputs, the plan holding several checksum keys
C1_Witness ==
    /\ Len(calls) = 2
    /\ SameInputs(calls[1], calls[2])
    /\ Cardinality(DOMAIN calls[2].plan.file_checksums) >= 2

\* what C2 says of every plan apart from the source files' targets: n + 2
\* mutations, Create at the first n + 1, the component's mod.rs at index n,
\* the single Modify/AppendExport on the module file last, and the values of
\* the "Dialog" under /proj example
C2_Frame(c) ==
    LET n   == Len(c.entry.required_files)
        m   == c.plan.mutations
        dir == component_dir(c.root, c.entry.name)
    IN  /\ Len(m) = n + 2
        /\ \A i \in 1..(n + 1) : m[i].action = "create"
        /\ m[n + 1].file_path = join(dir, <<"mod", "rs">>)
        /\ m[n + 2].action = "modify"
        /\ m[n + 2].strategy = "append_export"
        /\ m[n + 2].file_path = module_file(c.root)
        /\ m[n + 2].content = export_line(c.entry.name)
        /\ (c.entry.name = "Dialog" /\ c.root = << <<"proj">> >>)
           => /\ m[n + 1].file_path =
                   << <<"proj">>, <<"src">>, <<"shared">>, <<"ui">>,
                      <<"dialog">>, <<"mod", "rs">> >>
              /\ m[n + 2].file_path =
                   << <<"proj">>, <<"src">>, <<"shared">>, <<"ui">>,
                      <<"mod", "rs">> >>
              /\ m[n + 2].content = <<"pub mod ", "dialog", ";">>

\* C2 as stated: every source file's Create targets
\* component_dir/<basename of the entry>.
C2_Original ==
    \A k \in 1..Len(calls) :
        /\ C2_Frame(calls[k])
        /\ \A i \in 1..Len(calls[k].entry.required_files) :
              LET f == calls[k].entry.required_files[i]
              IN  /\ HasFileName(f)
                  /\ calls[k].plan.mutations[i].file_path =
                        join(component_dir(calls[k].root, calls[k].entry.name),
                             FileName(f))

\* C2 (amended): n + 2 mutations in the fixed order; the Create at index i
\* targets component_dir/<basename of required_files[i]>, or
\* component_dir/<lowercase name>.rs when that entry has no final path
\* component.
C2_MutationOrder ==
    \A k \in 1..Len(calls) :
        /\ C2_Frame(calls[k])
        /\ \A i \in 1..Len(calls[k].entry.required_files) :
              LET f   == calls[k].entry.required_files[i]
                  dir == component_dir(calls[k].root, calls[k].entry.name)
              IN  calls[k].plan.mutations[i].file_path =
                     IF HasFileName(f) THEN Append(dir, FileName(f))
                     ELSE Append(dir, <<to_lowercase(calls[k].entry.name), "rs">>)

\* a plan for two source files, one of them without a final component
C2_Witness ==
    \E k \in 1..Len(calls) :
        /\ Len(calls[k].entry.required_files) = 2
        /\ \E i \in 1..2 : ~HasFileName(calls[k].entry.required_files[i])
        /\ \E i \in 1..2 : HasFileName(calls[k].entry.required_files[i])

\* the Create mutations of a plan whose target is in the snapshot, in order
ConflictingCreates(c) ==
    LET Hit(m) == m.action = "create" /\ m.file_path \in c.existing_files
    IN  SelectSeq(c.plan.mutations, Hit)

\* the first part of C3: one Conflict per Create whose target is in
\* existing_files, carrying that path, in mutation order, and nothing else;
\* has_conflicts() accordingly
C3_PerCreate(c) ==
    /\ Len(c.plan.conflicts) = Len(ConflictingCreates(c))
    /\ \A i \in 1..Len(c.plan.conflicts) :
          c.plan.conflicts[i].file_path = ConflictingCreates(c)[i].file_path
    /\ has_conflicts(c.plan)
          <=> \E i \in 1..Len(c.plan.mutations) :
                 /\ c.plan.mutations[i].action = "create"
                 /\ c.plan.mutations[i].file_path \in c.existing_files
    /\ (c.existing_files = {} => ~has_conflicts(c.plan))

ComponentModPath(c) == join(component_dir(c.root, c.entry.name), <<"mod", "rs">>)

C4_ConflictsAdvisory ==
    /\ \A i, j \in 1..Len(calls) :
          (calls[i].entry = calls[j].entry /\ calls[i].root = calls[j].root)
          => /\ calls[i].plan.mutations = calls[j].plan.mutations
             /\ calls[i].plan.file_checksums = calls[j].plan.file_checksums
             /\ calls[i].plan.provenance_actions = calls[j].plan.provenance_actions
    /\ \A k \in 1..Len(calls) :
          \A i \in 1..Len(calls[k].plan.conflicts) :
             calls[k].plan.conflicts[i].file_path # module_file(calls[k].root)

\* two calls, the first on a snapshot holding the module file and a Create
\* target, the second on an empty one
C4_Witness ==
    /\ Len(calls) = 2
    /\ module_file(calls[1].root) \in calls[1].existing_files
    /\ has_conflicts(calls[1].plan)
    /\ calls[2].existing_files = {}
    /\ ~has_conflicts(calls[2].plan)

\* C5: every Create mutation's file_path is a key of file_checksums.
C5_ChecksumCoverage ==
    \A k \in 1..Len(calls) :
        \A i \in 1..Len(calls[k].plan.mutations) :
            calls[k].plan.mutations[i].action = "create"
            => calls[k].plan.mutations[i].file_path
                  \in DOMAIN calls[k].plan.file_checksums

\* a plan with a source file whose target already exists
C5_Witness ==
    \E k \in 1..Len(calls) :
        /\ Len(calls[k].entry.required_files) >= 1
        /\ calls[k].plan.mutations[1].file_path \in calls[k].existing_files

\* --------------------------------------------------------------- filesystem

\* Path::exists
exists(fs, p) == p \in DOMAIN fs.files \/ p \in fs.dirs

\* the operating system fails the writes at path p: it refuses them (kind
\* "denied"), or cuts them short after the file was emptied (kind
\* "truncated") or after the first symbol was written (kind "partial")
FaultAt(flt, p, kind) == p \in DOMAIN flt /\ flt[p] = kind

\* io::Result of an operation, with the filesystem it leaves
IoOk(fs) == [ok |-> TRUE, fs |-> fs]

IoErr(fs) == [ok |-> FALSE, fs |-> fs]

\* std::fs::create_dir_all(p): the missing directories are made from the
\* outermost one down; a regular file in the way or a refused mkdir fails
\* the call and leaves the directories made so far
RECURSIVE MkDirs(_, _, _, _)
MkDirs(fs, flt, p, k) ==
    IF k > Len(p) THEN IoOk(fs)
    ELSE LET q == SubSeq(p, 1, k)
         IN  IF q \in fs.dirs THEN MkDirs(fs, flt, p, k + 1)
             ELSE IF q \in DOMAIN fs.files \/ FaultAt(flt, q, "denied")
                  THEN IoErr(fs)
             ELSE MkDirs([fs EXCEPT !.dirs = @ \cup {q}], flt, p, k + 1)

create_dir_all(fs, flt, p) == MkDirs(fs, flt, p, 1)

\* a write that adds content to what the file holds
fs_write_append(fs, flt, p, content) ==
    IF p \in fs.dirs \/ Parent(p) \notin fs.dirs THEN IoErr(fs)
    ELSE IoOk([fs EXCEPT !.files =
                MapInsert(@, p, (IF p \in DOMAIN @ THEN @[p] ELSE <<>>) \o content)])

\* a write that leaves the old content in a backup file beside the target
fs_write_with_backup(fs, flt, p, content) ==
    IF p \in fs.dirs \/ Parent(p) \notin fs.dirs THEN IoErr(fs)
    ELSE IoOk([fs EXCEPT !.files =
                 MapInsert(MapInsert(fs.files, p, content),
                           Append(Parent(p), FileName(p) \o <<"old">>),
                           IF p \in DOMAIN fs.files THEN fs.files[p] ELSE <<>>)])

\* a write that keeps the content of a file that is already there
fs_write_keep(fs, flt, p, content) ==
    IF p \in fs.dirs \/ Parent(p) \notin fs.dirs THEN IoErr(fs)
    ELSE IoOk([fs EXCEPT !.files =
                 MapInsert(@, p, IF p \in DOMAIN @ THEN @[p] ELSE content)])

\* std::fs::write(p, content): File::create (which truncates) then write_all.
\* It fails on a directory, under a missing parent and where the system
\* refuses the open; a write cut short leaves the part it has written
fs_write(fs, flt, p, content) ==
    IF p \in fs.dirs \/ Parent(p) \notin fs.dirs \/ FaultAt(flt, p, "denied")
    THEN IoErr(fs)
    ELSE IF FaultAt(flt, p, "truncated")
         THEN IoErr([fs EXCEPT !.files = MapInsert(@, p, <<>>)])
    ELSE IF FaultAt(flt, p, "partial")
         THEN IoErr([fs EXCEPT !.files =
                       MapInsert(@, p, SubSeq(content, 1, IF content = <<>> THEN 0 ELSE 1))])
    ELSE IoOk([fs EXCEPT !.files = MapInsert(@, p, content)])

\* std::fs::read_to_string(p)
read_to_string(fs, p) ==
    IF p \in DOMAIN fs.files THEN Some(fs.files[p]) ELSE None

\* std::fs::remove_file(p)
remove_file(fs, flt, p) ==
    IF p \notin DOMAIN fs.files \/ FaultAt(flt, p, "denied") THEN IoErr(fs)
    ELSE IoOk([fs EXCEPT !.files = [x \in (DOMAIN @) \ {p} |-> @[x]]])

\* ----------------------------------------------------------- apply_mutation

\* Result<()> of apply_mutation with the filesystem it leaves; error is the
\* text of the anyhow error (its outermost context)
Applied(fs) == [ok |-> TRUE, fs |-> fs, error |-> <<>>]

Failed(fs, error) == [ok |-> FALSE, fs |-> fs, error |-> error]

IoErrorText == <<"os error">>

\* the export is appended whatever the file holds
export_never_present(existing, content) == FALSE

\* AppendExport's test that the export is already there
export_present(existing, content) == contains(existing, content)

\* the export written in place of the existing text
export_replacing(existing, content) == content \o <<"\n">>

\* the export put right behind the existing text
export_appended_unterminated(existing, content) ==
    existing \o content \o <<"\n">>

\* AppendExport's new content
export_appended(existing, content) ==
    IF existing = <<>> THEN content \o <<"\n">>
    ELSE IF ends_with_newline(existing) THEN existing \o content \o <<"\n">>
    ELSE existing \o <<"\n">> \o content \o <<"\n">>

\* FileAction::Create
apply_create(fs, flt, m) ==
    LET made == create_dir_all(fs, flt, Parent(m.file_path))
    IN  IF ~made.ok
        THEN Failed(made.fs, <<"Failed to create directory: ">>
                                \o PathStr(Parent(m.file_path)))
        ELSE LET written == fs_write(made.fs, flt, m.file_path, m.content)
             IN  IF written.ok THEN Applied(written.fs)
                 ELSE Failed(written.fs, <<"Failed to write file: ">>
                                            \o PathStr(m.file_path))

\* FileAction::Modify with MutationStrategy::AppendExport
apply_append_export(fs, flt, m) ==
    LET p    == m.file_path
        made == IF exists(fs, p) THEN IoOk(fs)
                ELSE create_dir_all(fs, flt, Parent(p))
        read == IF exists(fs, p) THEN read_to_string(fs, p) ELSE Some(<<>>)
    IN  IF read = None
        THEN Failed(fs, <<"Failed to read file: ">> \o PathStr(p))
        ELSE IF ~made.ok THEN Failed(made.fs, IoErrorText)
        ELSE IF export_present(read[1], m.content) THEN Applied(made.fs)
        ELSE LET written ==
                    fs_write(made.fs, flt, p, export_appended(read[1], m.content))
             IN  IF written.ok THEN Applied(written.fs)
                 ELSE Failed(written.fs, <<"Failed to modify file: ">> \o PathStr(p))

\* an InsertUse that takes a missing file for an empty one, as AppendExport
\* does
apply_insert_use_creating(fs, flt, m) == apply_append_export(fs, flt, m)

\* FileAction::Modify with MutationStrategy::InsertUse
apply_insert_use(fs, flt, m) ==
    LET p    == m.file_path
        read == read_to_string(fs, p)
    IN  IF read = None
        THEN Failed(fs, <<"Failed to read file: ">> \o PathStr(p))
        ELSE IF contains(read[1], m.content) THEN Applied(fs)
        ELSE LET written ==
                    fs_write(fs, flt, p, m.content \o <<"\n">> \o read[1])
             IN  IF written.ok THEN Applied(written.fs)
                 ELSE Failed(written.fs, IoErrorText)

\* FileAction::Modify with any other strategy
apply_overwrite(fs, flt, m) ==
    LET written == fs_write(fs, flt, m.file_path, m.content)
    IN  IF written.ok THEN Applied(written.fs)
        ELSE Failed(written.fs, IoErrorText)

\* FileAction::Delete
apply_delete(fs, flt, m) ==
    IF ~exists(fs, m.file_path) THEN Applied(fs)
    ELSE LET removed == remove_file(fs, flt, m.file_path)
         IN  IF removed.ok THEN Applied(removed.fs)
             ELSE Failed(removed.fs, <<"Failed to delete file: ">>
                                        \o PathStr(m.file_path))

\* apply_mutation on filesystem fs under the faults flt
apply_mutation(fs, flt, m) ==
    CASE m.action = "create" -> apply_create(fs, flt, m)
      [] m.action = "modify" /\ m.strategy = "append_export" ->
            apply_append_export(fs, flt, m)
      [] m.action = "modify" /\ m.strategy = "insert_use" ->
            apply_insert_use(fs, flt, m)
      [] m.action = "modify" /\ m.strategy \notin {"append_export", "insert_use"} ->
            apply_overwrite(fs, flt, m)
      [] m.action = "delete" -> apply_delete(fs, flt, m)

\* --------------------------------------------------------------- apply_plan

\* the most commands one behaviour runs to their end
MaxRuns == 2

\* the loop visits every other mutation
enumerate_skip(i) == i + 2

\* plan.mutations.iter().enumerate(): the index after i
enumerate_next(i) == i + 1

\* the sidecars are written after an error too
after_error_provenance == "provenance"

\* return Err(..) from the loop: nothing more of apply_plan runs
after_error == "report"

\* Result<(), Box<(usize, String, PlanContract)>>
Ok == [ok |-> TRUE]

Err(i, error, p) == [ok |-> FALSE, index |-> i, error |-> error, plan |-> p]

\* serde_json::json!({...}) of a provenance action, pretty-printed: the keys
\* of a serde_json map come out in ascending order
provenance_json(pa) ==
    <<"installed_by: ", "gpui-cli", "license: ">> \o pa.license
        \o <<"modifications: ">> \o pa.modifications
        \o <<"source: ">> \o pa.source

\* the provenance pass gives up at the first sidecar it cannot write
RECURSIVE write_provenance_until_error(_, _, _, _)
write_provenance_until_error(fs, flt, actions, k) ==
    IF k > Len(actions) THEN fs
    ELSE LET written == fs_write(fs, flt, with_extension_provenance(actions[k].file_path),
                                 provenance_json(actions[k]))
         IN  IF written.ok
             THEN write_provenance_until_error(written.fs, flt, actions, k + 1)
             ELSE written.fs

\* the second pass of apply_plan from provenance action k on: each sidecar
\* is written next to its file and a failed write is ignored
RECURSIVE write_provenance(_, _, _, _)
write_provenance(fs, flt, actions, k) ==
    IF k > Len(actions) THEN fs
    ELSE write_provenance(
            fs_write(fs, flt, with_extension_provenance(actions[k].file_path),
                     provenance_json(actions[k])).fs,
            flt, actions, k + 1)

\* ------------------------------------------------------------------ the CLI

\* CliOutput::success, CliOutput::failure, CliError
CliOutput_success(data) == [success |-> TRUE, data |-> data, errors |-> <<>>]

CliOutput_failure(data, errors) ==
    [success |-> FALSE, data |-> data, errors |-> errors]

CliError(code, message) == [code |-> code, message |-> message]

\* the mutations up to and including the failed one
completed_through_failed(p, i) == SubSeq(p.mutations, 1, i + 1)

\* plan.mutations[..failed_index]
completed_mutations(p, i) == SubSeq(p.mutations, 1, i)

\* plan.mutations[failed_index..]
remaining_mutations(p, i) == SubSeq(p.mutations, i + 1, Len(p.mutations))

ApplyFailureReport(p, i, error) ==
    [plan |-> p, failed_at_index |-> i, error |-> error,
     completed_mutations |-> completed_mutations(p, i),
     remaining_mutations |-> remaining_mutations(p, i)]

\* the CONFLICT errors of cmd_add, one per conflict in order
conflict_errors(p) ==
    [i \in 1..Len(p.conflicts) |->
        CliError("CONFLICT",
                 PathStr(p.conflicts[i].file_path) \o <<": ">> \o p.conflicts[i].reason)]

\* a scan that reports regular files only and misses the module file
scan_sources_only(fs, root, component_name) ==
    {p \in DOMAIN fs.files :
        Parent(p) = join(join(root, <<"src">>) \o << <<"shared">>, <<"ui">> >>,
                         <<to_lowercase(component_name)>>)
        /\ FileName(p) # <<"mod", "rs">>}

\* scan_existing_files: the entries of the component directory, if it is one
scan_existing_files(fs, root, component_name) ==
    LET dir == join(join(root, <<"src">>) \o << <<"shared">>, <<"ui">> >>,
                    <<to_lowercase(component_name)>>)
    IN  IF dir \in fs.dirs
        THEN {p \in (DOMAIN fs.files) \cup fs.dirs : Len(p) > 0 /\ Parent(p) = dir}
        ELSE {}

\* the fields of a serialized PlanContract and of the output envelope
PlanFields ==
    {"operation", "component_name", "component_version", "mutations",
     "conflicts", "provenance_actions", "file_checksums", "target_layout"}

EnvelopeFields == {"success", "data", "errors"}

\* the JSON object json has each of the fields once (serde ignores others)
HasFields(json, fields) ==
    \A f \in fields : Cardinality({i \in 1..Len(json) : json[i][1] = f}) = 1

\* the value of a field of a JSON object
Field(json, f) == json[CHOOSE i \in 1..Len(json) : json[i][1] = f][2]

\* the pieces of text between the separators sep
RECURSIVE Split(_, _)
Split(text, sep) ==
    IF \A k \in 1..Len(text) : text[k] # sep THEN <<text>>
    ELSE LET k == CHOOSE k \in 1..Len(text) :
                     text[k] = sep /\ \A j \in 1..(k - 1) : text[j] # sep
         IN  <<SubSeq(text, 1, k - 1)>> \o Split(SubSeq(text, k + 1, Len(text)), sep)

\* a path read as one component, separators and all
path_unsplit(text) == <<text>>

\* PathBuf::from(text): the components between the "/" separators, each
\* with its "." separated segments
path_from(text) ==
    IF text = <<>> THEN <<>>
    ELSE LET parts == Split(text, "/")
             Segment(symbol) == symbol # "."
         IN  [i \in 1..Len(parts) |-> SelectSeq(parts[i], Segment)]

\* the map of a JSON object's (path, checksum) members, a later one winning
RECURSIVE ChecksumsFromPairs(_, _)
ChecksumsFromPairs(pairs, n) ==
    IF n = 0 THEN EmptyMap
    ELSE MapInsert(ChecksumsFromPairs(pairs, n - 1), path_from(pairs[n][1]), pairs[n][2])

\* the Deserialize of FileMutation, Conflict and ProvenanceAction
mutation_from_json(json) ==
    FileMutation(Field(json, "action"), path_from(Field(json, "file_path")),
                 Field(json, "strategy"), Field(json, "content"),
                 Field(json, "description"))

conflict_from_json(json) ==
    Conflict(path_from(Field(json, "file_path")), Field(json, "reason"))

provenance_from_json(json) ==
    ProvenanceAction(path_from(Field(json, "file_path")), Field(json, "source"),
                     Field(json, "license"), Field(json, "modifications"))

\* PlanContract::from_json: Ok with the plan if json is an object with the
\* fields of a PlanContract
from_json(json) ==
    IF ~HasFields(json, PlanFields) THEN None
    ELSE Some([operation |-> Field(json, "operation"),
               component_name |-> Field(json, "component_name"),
               component_version |-> Field(json, "component_version"),
               mutations |->
                  [i \in 1..Len(Field(json, "mutations")) |->
                      mutation_from_json(Field(json, "mutations")[i])],
               conflicts |->
                  [i \in 1..Len(Field(json, "conflicts")) |->
                      conflict_from_json(Field(json, "conflicts")[i])],
               provenance_actions |->
                  [i \in 1..Len(Field(json, "provenance_actions")) |->
                      provenance_from_json(Field(json, "provenance_actions")[i])],
               file_checksums |->
                  ChecksumsFromPairs(Field(json, "file_checksums"),
                                     Len(Field(json, "file_checksums"))),
               target_layout |-> Field(json, "target_layout")])

\* serde_json::from_str::<CliOutput<PlanContract>>(json), its data if Ok
envelope_from_json(json) ==
    IF HasFields(json, EnvelopeFields) THEN from_json(Field(json, "data")) ELSE None

\* the Serialize of ApplyFailureReport
ReportJson(report, plan_json) ==
    << <<"plan", plan_json>>,
       <<"failed_at_index", report.failed_at_index>>,
       <<"error", report.error>>,
       <<"completed_mutations",
         [i \in 1..Len(report.completed_mutations) |->
             MutationJson(report.completed_mutations[i])]>>,
       <<"remaining_mutations",
         [i \in 1..Len(report.remaining_mutations) |->
             MutationJson(report.remaining_mutations[i])]>> >>

\* CliOutput::to_json: the results for an output whose data is a plan or a
\* failure report
output_to_json(out) ==
    LET p == IF "plan" \in DOMAIN out.data THEN out.data.plan ELSE out.data
        errors == [i \in 1..Len(out.errors) |->
                      << <<"code", out.errors[i].code>>,
                         <<"message", out.errors[i].message>> >>]
    IN  {IF Len(r) = 0 THEN None
         ELSE Some(<< <<"success", out.success>>,
                      <<"data", IF "plan" \in DOMAIN out.data
                                THEN ReportJson(out.data, r[1]) ELSE r[1]>>,
                      <<"errors", errors>> >>) : r \in to_json(p)}

\* whatever the plan file holds is taken for a plan: what is none becomes
\* the plan of no mutations
parse_plan_file_any(json) ==
    IF Len(from_json(json)) > 0 THEN from_json(json)
    ELSE Some([operation |-> "add", component_name |-> "", component_version |-> "",
               mutations |-> <<>>, conflicts |-> <<>>, provenance_actions |-> <<>>,
               file_checksums |-> EmptyMap, target_layout |-> layout_name])

\* the plan cmd_apply gets out of the plan file: the envelope's data if the
\* text is an envelope, else the text as a plan
parse_plan_file(json) ==
    IF Len(envelope_from_json(json)) > 0 THEN envelope_from_json(json)
    ELSE from_json(json)

\* a finished command: what it ran on, what it did and what it reported
LogEntry(c, p, att, res, out, code, fs0, fs1) ==
    [cmd |-> c, plan |-> p, attempted |-> att, result |-> res, output |-> out,
     exit_code |-> code, before |-> fs0, after |-> fs1]

\* a command that ends without calling apply_plan: it prints out (if any)
\* and exits with code
ExitNow(c, p, out, code) ==
    /\ output' = out
    /\ exit_code' = Some(code)
    /\ log' = Append(log, LogEntry(c, p, <<>>, None, out, Some(code),
                                   FileSystem(files, dirs), FileSystem(files, dirs)))
    /\ UNCHANGED <<files, dirs, faults, pc, cmd, plan, idx, attempted, result, before>>

\* a command calls apply_plan(p, target_dir)
StartApply(c, p) ==
    /\ cmd' = c
    /\ plan' = Some(p)
    /\ idx' = 0
    /\ attempted' = <<>>
    /\ result' = None
    /\ before' = FileSystem(files, dirs)
    /\ output' = None
    /\ exit_code' = None
    /\ pc' = IF Len(p.mutations) = 0 THEN "provenance" ELSE "mutations"
    /\ UNCHANGED <<files, dirs, faults, log>>

\* the component argument of a command: one in the registry, one not
ComponentArgs == {"dialog", "tabs"}

\* gpui plan <component>, gpui add <component> --plan
CmdPlan ==
    /\ pc = "idle"
    /\ Len(log) < MaxRuns
    /\ \E component \in ComponentArgs :
         \E found \in {get(registry, component)} :
            IF Len(found) = 0
            THEN /\ existing_files' = existing_files
                 /\ ExitNow("plan", None, None, 1)
            ELSE \E ex \in {scan_existing_files(FileSystem(files, dirs), target_dir,
                                                found[1].name)} :
                   \E p \in {generate_plan(found[1], target_dir, ex)} :
                      /\ existing_files' = ex
                      /\ ExitNow("plan", Some(p), Some(CliOutput_success(p)), 0)
    /\ UNCHANGED <<registry, target_dir, calls, plan_file>>

\* gpui add <component>: up to the call of apply_plan
CmdAdd ==
    /\ pc = "idle"
    /\ Len(log) < MaxRuns
    /\ \E component \in ComponentArgs :
         \E found \in {get(registry, component)} :
            IF Len(found) = 0
            THEN /\ existing_files' = existing_files
                 /\ ExitNow("add", None, None, 1)
            ELSE \E ex \in {scan_existing_files(FileSystem(files, dirs), target_dir,
                                                found[1].name)} :
                   \E p \in {generate_plan(found[1], target_dir, ex)} :
                      /\ existing_files' = ex
                      /\ IF has_conflicts(p)
                         THEN ExitNow("add", Some(p),
                                      Some(CliOutput_failure(p, conflict_errors(p))), 0)
                         ELSE StartApply("add", p)
    /\ UNCHANGED <<registry, target_dir, calls, plan_file>>

\* gpui apply <plan-file>: up to the call of apply_plan
CmdApply ==
    /\ pc = "idle"
    /\ Len(log) < MaxRuns
    /\ IF Len(plan_file) = 0
       THEN ExitNow("apply", None, None, 1)
       ELSE \E parsed \in {parse_plan_file(plan_file[1])} :
               IF Len(parsed) = 0
               THEN ExitNow("apply", None, None, 1)
               ELSE StartApply("apply", parsed[1])
    /\ UNCHANGED <<registry, target_dir, existing_files, calls, plan_file>>

\* the user keeps what the last command printed as the plan file
SavePlan ==
    /\ pc = "idle"
    /\ Len(log) < MaxRuns
    /\ Len(output) > 0
    /\ \E printed \in output_to_json(output[1]) :
          /\ Len(printed) = 1
          /\ plan_file # printed
          /\ plan_file' = printed
    /\ UNCHANGED <<registry, target_dir, existing_files, calls, files, dirs, faults,
                   pc, cmd, plan, idx, attempted, result, output, exit_code,
                   before, log>>

\* one turn of the loop of apply_plan: apply_mutation on mutation idx
ApplyMutation ==
    /\ pc = "mutations"
    /\ idx < Len(plan[1].mutations)
    /\ \E r \in {apply_mutation(FileSystem(files, dirs), faults,
                                plan[1].mutations[idx + 1])} :
          /\ files' = r.fs.files
          /\ dirs' = r.fs.dirs
          /\ attempted' = Append(attempted, [index |-> idx, ok |-> r.ok])
          /\ IF r.ok
             THEN /\ idx' = enumerate_next(idx)
                  /\ result' = result
                  /\ pc' = IF enumerate_next(idx) < Len(plan[1].mutations)
                           THEN "mutations" ELSE "provenance"
             ELSE /\ idx' = idx
                  /\ result' = Some(Err(idx, r.error, plan[1]))
                  /\ pc' = after_error
    /\ UNCHANGED <<registry, target_dir, existing_files, calls, faults, plan_file,
                   cmd, plan, output, exit_code, before, log>>

\* the provenance pass of apply_plan and its return
WriteProvenance ==
    /\ pc = "provenance"
    /\ \E fs \in {write_provenance(FileSystem(files, dirs), faults,
                                   plan[1].provenance_actions, 1)} :
          /\ files' = fs.files
          /\ dirs' = fs.dirs
    /\ result' = IF Len(result) = 0 THEN Some(Ok) ELSE result
    /\ pc' = "report"
    /\ UNCHANGED <<registry, target_dir, existing_files, calls, faults, plan_file,
                   cmd, plan, idx, attempted, output, exit_code, before, log>>

\* cmd_add and cmd_apply after apply_plan: the envelope is printed and the
\* process exits
Report ==
    /\ pc = "report"
    /\ \E out \in {IF result[1].ok
                   THEN CliOutput_success(plan[1])
                   ELSE CliOutput_failure(
                          ApplyFailureReport(result[1].plan, result[1].index,
                                             result[1].error),
                          <<CliError("APPLY_FAILED", result[1].error)>>)} :
          /\ output' = Some(out)
          /\ exit_code' = Some(IF result[1].ok THEN 0 ELSE 1)
          /\ log' = Append(log, LogEntry(cmd, plan, attempted, result, Some(out),
                                         Some(IF result[1].ok THEN 0 ELSE 1),
                                         before, FileSystem(files, dirs)))
    /\ pc' = "idle"
    /\ cmd' = NoCommand
    /\ UNCHANGED <<registry, target_dir, existing_files, calls, files, dirs, faults,
                   plan_file, plan, idx, attempted, result, before>>

\* ------------------------------------------------------- the CLI's projects

\* required_files lists of the registry entry the CLI runs on
CliFileLists ==
    { << << <<"crates">>, <<"components">>, <<"src">>, <<"dialog", "rs">> >> >>,
      << << <<"src">>, <<"mod", "rs">> >> >>,
      << << <<"src">>, ParentDirComp >> >> }

CliEntries ==
    {e \in Entries : e.name = "Dialog" /\ e.required_files \in CliFileLists}

\* what the shared module file is before the first command
ModuleChoices ==
    { <<"absent">>, <<"directory">>,
      <<"file", <<>> >>,
      <<"file", <<"pub mod ", "tabs", ";", "\n">> >>,
      <<"file", <<"old">> >>,
      <<"file", <<"pub mod ", "dialog", ";", "\n">> >> }

\* what the component directory is before the first command
ComponentChoices == {"absent", "installed", "file"}

\* a project before the first command
Project(root, name, module, component) ==
    LET cdir   == component_dir(root, name)
        shared == {SubSeq(SharedUiDir(root), 1, k) :
                      k \in (Len(root) + 1)..Len(SharedUiDir(root))}
    IN  FileSystem(
          [p \in (IF module[1] = "file" THEN {module_file(root)} ELSE {})
                 \cup (IF component = "installed"
                       THEN {join(cdir, <<"dialog", "rs">>)} ELSE {})
                 \cup (IF component = "file" THEN {cdir} ELSE {}) |->
              IF p = module_file(root) THEN module[2] ELSE <<"old">>],
          {root}
            \cup (IF module[1] = "absent" /\ component = "absent" THEN {} ELSE shared)
            \cup (IF module[1] = "directory" THEN {module_file(root)} ELSE {})
            \cup (IF component = "installed" THEN {cdir} ELSE {}))

\* the writes the operating system fails: none, or those at one path
FaultChoices(root, name) ==
    {EmptyMap}
    \cup {[p \in {f[1]} |-> f[2]] :
            f \in { <<component_dir(root, name), "denied">>,
                    <<join(component_dir(root, name), <<"mod", "rs">>), "truncated">>,
                    <<module_file(root), "denied">>,
                    <<module_file(root), "partial">> }}

\* a plan written by hand: an update that removes the old source, rewrites
\* the component's module file and adds a use line to the shared module file
HandPlan(root, name) ==
    [operation |-> "update", component_name |-> name, component_version |-> "0.1.0",
     mutations |->
        << FileMutation("delete", join(component_dir(root, name), <<"dialog", "rs">>),
                        "delete_file", <<>>, <<"Remove the old source">>),
           FileMutation("modify", join(component_dir(root, name), <<"mod", "rs">>),
                        "replace_section", <<"//! ", name>>,
                        <<"Rewrite the module file">>),
           FileMutation("modify", module_file(root), "insert_use",
                        <<"pub mod ", "tabs", ";">>, <<"Add a use line">>) >>,
     conflicts |-> <<>>, provenance_actions |-> <<>>,
     file_checksums |-> EmptyMap, target_layout |-> layout_name]

\* a plan file that is not JSON of a plan
Garbage == << <<"malformed", "true">> >>

\* what the plan file holds before the first command: nothing (no file),
\* garbage, the plan generated for the entry on an empty project, a plan
\* written by hand
PlanFiles(entry, root) ==
    {None, Some(Garbage)}
    \cup to_json(generate_plan(entry, root, {}))
    \cup to_json(HandPlan(root, entry.name))

InitCli ==
    /\ \E e \in CliEntries :
          /\ registry = register(EmptyMap, e)
          /\ target_dir \in TargetDirs
          /\ plan_file \in PlanFiles(e, target_dir)
          /\ faults \in FaultChoices(target_dir, e.name)
          /\ \E module \in ModuleChoices, component \in ComponentChoices :
               \E fs \in {Project(target_dir, e.name, module, component)} :
                  /\ files = fs.files
                  /\ dirs = fs.dirs
                  /\ before = fs
    /\ existing_files = {}
    /\ calls = <<>>
    /\ pc = "idle"
    /\ cmd = NoCommand
    /\ plan = None
    /\ idx = 0
    /\ attempted = <<>>
    /\ result = None
    /\ output = None
    /\ exit_code = None
    /\ log = <<>>

NextCli ==
    \/ CmdPlan
    \/ CmdAdd
    \/ CmdApply
    \/ SavePlan
    \/ ApplyMutation
    \/ WriteProvenance
    \/ Report

SpecCli == InitCli /\ [][NextCli]_vars

\* ------------------------------------------------------- claims about apply

\* the finished commands in which apply_plan returned
Returned(rec) == rec.cmd \in {"add", "apply"} /\ Len(rec.result) > 0

Succeeded(rec) == Returned(rec) /\ rec.result[1].ok

\* apply_plan halted: its last call of apply_mutation failed
Halted(rec) ==
    /\ Returned(rec)
    /\ Len(rec.attempted) > 0
    /\ ~rec.attempted[Len(rec.attempted)].ok

\* p is a plan generate_plan returns for a registered entry on this project
\* (the snapshot of existing files decides its conflicts only)
GeneratedPlan(p) ==
    \E k \in DOMAIN registry :
        [p EXCEPT !.conflicts = <<>>] = generate_plan(registry[k], target_dir, {})

\* how often pat occurs in text
Occurrences(text, pat) ==
    Cardinality({k \in 0..(Len(text) - Len(pat)) :
                    \A j \in 1..Len(pat) : text[k + j] = pat[j]})

\* the shared module file of fs holds the export line of plan p
ModuleHasExport(fs, p) ==
    /\ module_file(target_dir) \in DOMAIN fs.files
    /\ contains(fs.files[module_file(target_dir)], export_line(p.component_name))

\* log[k] and log[k + 1] apply the same generated plan and both succeed
AppliedTwice(k) ==
    /\ Succeeded(log[k])
    /\ Succeeded(log[k + 1])
    /\ log[k].plan = log[k + 1].plan
    /\ GeneratedPlan(log[k].plan[1])

\* C6: when a generated plan is applied twice in succession, both applies
\* succeeding, on a project whose shared module file was absent or did not
\* contain the export line, the module file then contains the export line
\* exactly once
C6_IdempotentExport ==
    \A k \in 1..(Len(log) - 1) :
        (AppliedTwice(k) /\ ~ModuleHasExport(log[k].before, log[k].plan[1]))
        => Occurrences(log[k + 1].after.files[module_file(target_dir)],
                       export_line(log[k].plan[1].component_name)) = 1

C6_Witness ==
    \E k \in 1..(Len(log) - 1) :
        /\ AppliedTwice(k)
        /\ module_file(target_dir) \in DOMAIN log[k].before.files
        /\ log[k].before.files[module_file(target_dir)] # <<>>
        /\ ~ModuleHasExport(log[k].before, log[k].plan[1])
        /\ ModuleHasExport(log[k + 1].after, log[k].plan[1])

\* C7: after a generated plan has been applied with success, applying the
\* same plan again succeeds too and leaves every file with the content it
\* had after the first application
C7_IdempotentApply ==
    \A k \in 1..(Len(log) - 1) :
        ( /\ Succeeded(log[k])
          /\ log[k + 1].cmd = "apply"
          /\ log[k + 1].plan = log[k].plan
          /\ GeneratedPlan(log[k].plan[1]) )
        => /\ Succeeded(log[k + 1])
           /\ log[k + 1].after.files = log[k].after.files

C7_Witness ==
    \E k \in 1..(Len(log) - 1) :
        /\ AppliedTwice(k)
        /\ log[k].before.files # log[k].after.files
        /\ log[k + 1].before = log[k].after
        /\ log[k + 1].after.files = log[k].after.files
        /\ \E pa \in {log[k].plan[1].provenance_actions[1]} :
              with_extension_provenance(pa.file_path) \in DOMAIN log[k].after.files

\* the calls of apply_mutation were for the indices 0, 1, 2, ... in turn
AttemptsInOrder(att) == \A j \in 1..Len(att) : att[j].index = j - 1

\* every call of apply_mutation but the last one succeeded
AllButLastOk(att) == \A j \in 1..(Len(att) - 1) : att[j].ok

\* C8: apply_plan calls apply_mutation in increasing index order and stops
\* at the first failure: it returns Err with the failed index and a copy of
\* the plan after calls for exactly the indices 0..i, of which only the
\* last failed, and returns Ok only after every mutation has succeeded
C8_HaltOnFirstError ==
    /\ pc # "idle" => (AttemptsInOrder(attempted) /\ AllButLastOk(attempted))
    /\ \A k \in 1..Len(log) :
          Returned(log[k]) =>
             /\ AttemptsInOrder(log[k].attempted)
             /\ AllButLastOk(log[k].attempted)
             /\ IF log[k].result[1].ok
                THEN /\ Len(log[k].attempted) = Len(log[k].plan[1].mutations)
                     /\ \A j \in 1..Len(log[k].attempted) : log[k].attempted[j].ok
                ELSE /\ Len(log[k].attempted) = log[k].result[1].index + 1
                     /\ log[k].result[1].index < Len(log[k].plan[1].mutations)
                     /\ ~log[k].attempted[Len(log[k].attempted)].ok
                     /\ log[k].result[1].plan = log[k].plan[1]

C8_Witness ==
    \E k \in 1..Len(log) :
        /\ Halted(log[k])
        /\ log[k].result[1].index >= 1
        /\ log[k].result[1].index + 1 < Len(log[k].plan[1].mutations)
        /\ Len(log[k].attempted) = log[k].result[1].index + 1

\* the filesystem after the first n of the mutations muts have been applied
RECURSIVE ApplyPrefix(_, _, _, _)
ApplyPrefix(fs, flt, muts, n) ==
    IF n = 0 THEN fs
    ELSE apply_mutation(ApplyPrefix(fs, flt, muts, n - 1), flt, muts[n]).fs

\* the proper ancestors of path p
Ancestors(p) == {SubSeq(p, 1, k) : k \in 0..(Len(p) - 1)}

\* what C9 says of one halted run (the statement as the spec has it): the
\* filesystem is the one the mutations before the failed index produce
ExactPrefixState(rec) ==
    rec.after = ApplyPrefix(rec.before, faults, rec.plan[1].mutations,
                            rec.result[1].index)

PrefixStateButFailedTarget(rec) ==
    LET i        == rec.result[1].index
        expected == ApplyPrefix(rec.before, faults, rec.plan[1].mutations, i)
        target   == rec.plan[1].mutations[i + 1].file_path
    IN  /\ expected.dirs \subseteq rec.after.dirs
        /\ (rec.after.dirs \ expected.dirs) \subseteq Ancestors(target)
        /\ (DOMAIN rec.after.files) \ {target} = (DOMAIN expected.files) \ {target}
        /\ \A p \in (DOMAIN expected.files) \ {target} :
              rec.after.files[p] = expected.files[p]
        /\ target \in DOMAIN expected.files => target \in DOMAIN rec.after.files

ReportFields ==
    {"plan", "failed_at_index", "error", "completed_mutations",
     "remaining_mutations"}

\* the envelope of a halted run: one APPLY_FAILED error and the report of
\* the failed index
FailureEnvelope(rec) ==
    LET out  == rec.output[1]
        i    == rec.attempted[Len(rec.attempted)].index
        muts == rec.plan[1].mutations
    IN  /\ out.success = FALSE
        /\ Len(out.errors) = 1
        /\ out.errors[1].code = "APPLY_FAILED"
        /\ DOMAIN out.data = ReportFields
        /\ out.data.plan = rec.plan[1]
        /\ out.data.failed_at_index = i
        /\ i < Len(muts)
        /\ out.data.completed_mutations = SubSeq(muts, 1, i)
        /\ out.data.remaining_mutations = SubSeq(muts, i + 1, Len(muts))
        /\ out.data.completed_mutations \o out.data.remaining_mutations = muts
        /\ out.data.remaining_mutations[1] = muts[i + 1]

\* C10: add and apply report a halt at index i with a failure envelope that
\* holds one APPLY_FAILED error and an ApplyFailureReport with
\* failed_at_index = i, completed_mutations = mutations[0..i) and
\* remaining_mutations = mutations[i..], and exit with an error; no report
\* is printed when apply does not halt
C10_FailureReport ==
    \A k \in 1..Len(log) :
        log[k].cmd \in {"add", "apply"} =>
            IF Halted(log[k])
            THEN /\ Len(log[k].output) = 1
                 /\ FailureEnvelope(log[k])
                 /\ log[k].exit_code[1] # 0
            ELSE Len(log[k].output) = 1
                    => DOMAIN log[k].output[1].data # ReportFields

C10_Witness ==
    /\ \E k \in 1..Len(log) :
          /\ log[k].cmd = "add"
          /\ Halted(log[k])
          /\ log[k].output[1].data.failed_at_index >= 1
    /\ \E k \in 1..Len(log) :
          /\ log[k].cmd = "apply"
          /\ Halted(log[k])
          /\ log[k].exit_code = Some(1)

\* ------------------------------------------------- the provenance pass

\* source lists of two files: one whose sidecars differ, one whose two
\* files differ in their extension only
ProvenanceFileLists ==
    { << << <<"crates">>, <<"components">>, <<"src">>, <<"dialog", "rs">> >>,
         << <<"src">>, <<"mod", "rs">> >> >>,
      << << <<"crates">>, <<"components">>, <<"src">>, <<"dialog", "rs">> >>,
         << <<"src">>, <<"dialog", "txt">> >> >> }

ProvenanceEntries ==
    {e \in Entries : e.name = "Dialog" /\ e.required_files \in ProvenanceFileLists}

\* the writes the operating system fails: none, those of one sidecar, or
\* those of one file the mutations write
SidecarFaultChoices(root, name) ==
    {EmptyMap}
    \cup {[p \in {f[1]} |-> f[2]] :
            f \in { <<join(component_dir(root, name),
                           <<"dialog", "provenance", "json">>), "denied">>,
                    <<join(component_dir(root, name),
                           <<"dialog", "provenance", "json">>), "truncated">>,
                    <<join(component_dir(root, name),
                           <<"mod", "provenance", "json">>), "denied">>,
                    <<join(component_dir(root, name), <<"mod", "rs">>), "truncated">>,
                    <<module_file(root), "denied">> }}

\* a project, a registry entry with two source files and the plan file of
\* its generated plan (or none)
InitProvenance ==
    /\ \E e \in ProvenanceEntries :
          /\ registry = register(EmptyMap, e)
          /\ target_dir \in TargetDirs
          /\ plan_file \in {None} \cup to_json(generate_plan(e, target_dir, {}))
          /\ faults \in SidecarFaultChoices(target_dir, e.name)
          /\ \E module \in { <<"absent">>, <<"file", <<"pub mod ", "tabs", ";", "\n">> >> },
                component \in {"absent", "installed"} :
               \E fs \in {Project(target_dir, e.name, module, component)} :
                  /\ files = fs.files
                  /\ dirs = fs.dirs
                  /\ before = fs
    /\ existing_files = {}
    /\ calls = <<>>
    /\ pc = "idle"
    /\ cmd = NoCommand
    /\ plan = None
    /\ idx = 0
    /\ attempted = <<>>
    /\ result = None
    /\ output = None
    /\ exit_code = None
    /\ log = <<>>

SpecProvenance == InitProvenance /\ [][NextCli]_vars

\* the sidecar path of a provenance action
Sidecar(pa) == with_extension_provenance(pa.file_path)

\* what path p is in fs: absent, a directory, or a file with its content
PathState(fs, p) ==
    IF p \in DOMAIN fs.files THEN <<"file", fs.files[p]>>
    ELSE IF p \in fs.dirs THEN <<"dir">>
    ELSE <<"absent">>

\* every mutation of the run's plan was applied with success
AllMutationsOk(rec) ==
    /\ Returned(rec)
    /\ Len(rec.attempted) = Len(rec.plan[1].mutations)
    /\ \A j \in 1..Len(rec.attempted) : rec.attempted[j].ok

\* the last provenance action of the plan whose sidecar path is s
LastWriter(actions, s) ==
    CHOOSE j \in 1..Len(actions) :
        /\ Sidecar(actions[j]) = s
        /\ \A i \in (j + 1)..Len(actions) : Sidecar(actions[i]) # s

\* sidecar path s is as one write of the last action's provenance leaves it,
\* whether that write succeeds or fails
SidecarAttempted(rec, s) ==
    LET actions == rec.plan[1].provenance_actions
        mid     == ApplyPrefix(rec.before, faults, rec.plan[1].mutations,
                               Len(rec.plan[1].mutations))
    IN  PathState(rec.after, s) =
           PathState(fs_write(mid, faults, s,
                              provenance_json(actions[LastWriter(actions, s)])).fs, s)

\* C11: sidecars are written only once every mutation has succeeded (a
\* halted run leaves every sidecar path as it found it); a failed sidecar
\* write does not turn the success into a failure, and every sidecar is
\* attempted whatever became of the ones before it
C11_BestEffortProvenance ==
    \A k \in 1..Len(log) :
        Returned(log[k]) =>
            /\ Halted(log[k]) =>
                  \A j \in 1..Len(log[k].plan[1].provenance_actions) :
                     \E s \in {Sidecar(log[k].plan[1].provenance_actions[j])} :
                        PathState(log[k].after, s) = PathState(log[k].before, s)
            /\ AllMutationsOk(log[k]) =>
                  /\ log[k].result[1].ok
                  /\ \A j \in 1..Len(log[k].plan[1].provenance_actions) :
                        SidecarAttempted(log[k],
                                         Sidecar(log[k].plan[1].provenance_actions[j]))

C11_Witness ==
    \E k \in 1..Len(log) :
        /\ Succeeded(log[k])
        /\ Len(log[k].plan[1].provenance_actions) = 2
        /\ \E a \in {Sidecar(log[k].plan[1].provenance_actions[1])},
              b \in {Sidecar(log[k].plan[1].provenance_actions[2])} :
              /\ a # b
              /\ a \notin DOMAIN log[k].after.files
              /\ b \in DOMAIN log[k].after.files
              /\ b \notin DOMAIN log[k].before.files

\* the write of sidecar path s can succeed: the path is not a directory,
\* its parent is one, and the operating system fails no write there
SidecarWritable(fs, s) ==
    /\ s \notin fs.dirs
    /\ Parent(s) \in fs.dirs
    /\ s \notin DOMAIN faults

\* C12: after a successful apply of a generated plan in which every sidecar
\* write succeeded, provenance actions with different file_path values have
\* different sidecar files, and each sidecar holds the provenance of its
\* own action
C12_OneSidecarPerAction ==
    \A k \in 1..Len(log) :
        ( /\ Succeeded(log[k])
          /\ GeneratedPlan(log[k].plan[1])
          /\ \A j \in 1..Len(log[k].plan[1].provenance_actions) :
                SidecarWritable(log[k].after,
                                Sidecar(log[k].plan[1].provenance_actions[j])) )
        => \A i, j \in 1..Len(log[k].plan[1].provenance_actions) :
              \E a \in {log[k].plan[1].provenance_actions[i]},
                 b \in {log[k].plan[1].provenance_actions[j]} :
                 /\ a.file_path # b.file_path => Sidecar(a) # Sidecar(b)
                 /\ Sidecar(a) \in DOMAIN log[k].after.files
                 /\ log[k].after.files[Sidecar(a)] = provenance_json(a)

\* ------------------------------------------------ claims about the commands

\* the run is an `add` whose generated plan has conflicts
AddWithConflicts(rec) ==
    /\ rec.cmd = "add"
    /\ Len(rec.plan) = 1
    /\ Len(rec.plan[1].conflicts) > 0

\* C13: `add` on a project where the generated plan has conflicts never
\* calls apply_plan and writes nothing; it prints a failure envelope whose
\* data is the plan and whose errors are one CONFLICT entry per conflict of
\* the plan, in the plan's order
C13_AddRefusesConflicts ==
    /\ (cmd = "add" /\ pc # "idle") => Len(plan[1].conflicts) = 0
    /\ \A k \in 1..Len(log) :
          AddWithConflicts(log[k]) =>
             /\ log[k].after = log[k].before
             /\ log[k].attempted = <<>>
             /\ Len(log[k].result) = 0
             /\ Len(log[k].output) = 1
             /\ log[k].output[1].success = FALSE
             /\ log[k].output[1].data = log[k].plan[1]
             /\ Len(log[k].output[1].errors) = Len(log[k].plan[1].conflicts)
             /\ \A j \in 1..Len(log[k].plan[1].conflicts) :
                   /\ log[k].output[1].errors[j].code = "CONFLICT"
                   /\ log[k].output[1].errors[j].message =
                         PathStr(log[k].plan[1].conflicts[j].file_path)
                            \o <<": ">> \o log[k].plan[1].conflicts[j].reason

C13_Witness ==
    \E k \in 1..Len(log) :
        /\ AddWithConflicts(log[k])
        /\ Len(log[k].plan[1].conflicts) >= 2
        /\ log[k].plan[1].conflicts[1].file_path # log[k].plan[1].conflicts[2].file_path
        /\ Len(log[k].output[1].errors) >= 2

\* C14: `add` exits non-zero whenever the generated plan has a conflict
C14_ConflictExitsNonZero ==
    \A k \in 1..Len(log) : AddWithConflicts(log[k]) => log[k].exit_code[1] # 0

\* the plan file holds a plan, bare or in an output envelope
WellFormedPlanFile(file) ==
    /\ Len(file) = 1
    /\ \/ \A f \in PlanFields : \E i \in 1..Len(file[1]) : file[1][i][1] = f
       \/ /\ \A f \in EnvelopeFields : \E i \in 1..Len(file[1]) : file[1][i][1] = f
          /\ \E i \in 1..Len(file[1]) :
                /\ file[1][i][1] = "data"
                /\ \A f \in PlanFields :
                      \E j \in 1..Len(file[1][i][2]) : file[1][i][2][j][1] = f

\* the step is a whole command that ends without calling apply_plan
EndsWithoutApply == pc = "idle" /\ pc' = "idle" /\ Len(log') = Len(log) + 1

\* C15: a command that ends without applying a plan (plan and add --plan,
\* a component the registry does not hold, an unreadable or malformed plan
\* file) leaves the filesystem as it was; apply_plan is entered by `add`
\* only for a registered component and by `apply` only with a plan file that
\* holds a plan, and a command that found no plan exits with an error
C15_OnlyApplyWrites ==
    [][ /\ EndsWithoutApply => (files' = files /\ dirs' = dirs)
        /\ (EndsWithoutApply /\ Len(log'[Len(log')].plan) = 0) =>
              (log'[Len(log')].exit_code[1] # 0 /\ log'[Len(log')].attempted = <<>>)
        /\ (EndsWithoutApply /\ log'[Len(log')].cmd = "plan") =>
              log'[Len(log')].after = log'[Len(log')].before
        /\ (pc = "idle" /\ pc' # "idle" /\ cmd' = "apply") =>
              WellFormedPlanFile(plan_file)
        /\ (pc = "idle" /\ pc' # "idle" /\ cmd' = "add") =>
              to_lowercase(plan'[1].component_name) \in DOMAIN registry
        /\ (pc = "idle" /\ pc' # "idle") => (files' = files /\ dirs' = dirs)
      ]_vars

C15_Witness ==
    /\ \E k \in 1..Len(log) :
          /\ log[k].cmd = "plan"
          /\ Len(log[k].plan) = 1
          /\ Len(log[k].plan[1].conflicts) > 0
          /\ log[k].exit_code = Some(0)
    /\ \E k \in 1..Len(log) :
          /\ log[k].cmd = "apply"
          /\ Len(log[k].plan) = 0
          /\ log[k].exit_code = Some(1)
          /\ Len(plan_file) = 1

\* ------------------------------------------------------------ RegistryIndex

\* register, remove and get calls of one behaviour
MaxOps == 3

\* the entries registered: two casings of one name, another name, and two
\* versions that tell a later registration from an earlier one
RegistryEntries ==
    [name : {"Dialog", "DIALOG", "Tabs"}, version : {"0.1.0", "0.2.0"},
     required_files : {<<>>}]

\* the names asked for: every casing, and a prefix of a registered name
LookupNames == {"Dialog", "DIALOG", "dialog", "Tabs", "tabs", "dia"}

\* HashMap::remove: the map without the key, and the entry it held
MapRemove(map, key) == [k \in DOMAIN map \ {key} |-> map[k]]

\* RegistryIndex::remove
remove(index, name) ==
    [index |-> MapRemove(index, to_lowercase(name)), returned |-> get(index, name)]

\* RegistryIndex::len
len(index) == Cardinality(DOMAIN index)

\* the orders HashMap<String, RegistryEntry>::iter can yield: the hasher is
\* seeded per map, so the content does not fix the order
hash_map_key_orders(map) == KeyPermutations(map)

\* serde_json::to_string_pretty of a RegistryEntry, with the fields the
\* model keeps
EntryJson(entry) ==
    << <<"name", entry.name>>, <<"version", entry.version>>,
       <<"required_files", entry.required_files>> >>

\* the text of an index whose entries are listed in the order ord
RegistryJson(index, ord) ==
    << <<"entries", [i \in 1..Len(ord) |-> <<ord[i], EntryJson(index[ord[i]])>>]>> >>

\* RegistryIndex::to_json: the texts it can return
registry_to_json(index) == {RegistryJson(index, ord) : ord \in hash_map_key_orders(index)}

\* RegistryIndex::from_json: the map of the listed keys, a later one winning
RECURSIVE MapFromPairs(_, _)
MapFromPairs(pairs, n) ==
    IF n = 0 THEN EmptyMap
    ELSE MapInsert(MapFromPairs(pairs, n - 1), pairs[n][1],
                   [name |-> pairs[n][2][1][2], version |-> pairs[n][2][2][2],
                    required_files |-> pairs[n][2][3][2]])

registry_from_json(json) == MapFromPairs(json[1][2], Len(json[1][2]))

\* a call on the index: which, its arguments, what it returned and the
\* index it left
RegistryCall(op, name, entry, returned, index) ==
    [op |-> op, name |-> name, entry |-> entry, returned |-> returned, index |-> index]

\* generate_registry: the components registered one after another, with the
\* calls that built the index
GeneratedEntries ==
    << [name |-> "Dialog", version |-> "0.1.0", required_files |-> <<>>],
       [name |-> "Tabs", version |-> "0.1.0", required_files |-> <<>>] >>

generate_registry ==
    register(register(EmptyMap, GeneratedEntries[1]), GeneratedEntries[2])

GeneratedCalls ==
    << RegistryCall("register", "Dialog", Some(GeneratedEntries[1]), None,
                    register(EmptyMap, GeneratedEntries[1])),
       RegistryCall("register", "Tabs", Some(GeneratedEntries[2]), None,
                    generate_registry) >>

\* the calls made on the index since it was built
CallsMade ==
    IF Len(calls) >= 2 /\ SubSeq(calls, 1, 2) = GeneratedCalls
    THEN Len(calls) - 2 ELSE Len(calls)

\* the index is RegistryIndex::new() or the one generate_registry returns
InitRegistry ==
    /\ \/ registry = EmptyMap /\ calls = <<>>
       \/ registry = generate_registry /\ calls = GeneratedCalls
    /\ target_dir \in TargetDirs
    /\ existing_files = {}
    /\ CliAtRest

Register ==
    /\ CallsMade < MaxOps
    /\ \E entry \in RegistryEntries :
          /\ registry' = register(registry, entry)
          /\ calls' = Append(calls, RegistryCall("register", entry.name, Some(entry), None,
                                       register(registry, entry)))
    /\ UNCHANGED <<target_dir, existing_files>>
    /\ UNCHANGED cliVars

Remove ==
    /\ CallsMade < MaxOps
    /\ \E name \in LookupNames :
         \E r \in {remove(registry, name)} :
            /\ registry' = r.index
            /\ calls' = Append(calls, RegistryCall("remove", name, None, r.returned, r.index))
    /\ UNCHANGED <<target_dir, existing_files>>
    /\ UNCHANGED cliVars

Lookup ==
    /\ CallsMade < MaxOps
    /\ \E name \in LookupNames :
          calls' = Append(calls, RegistryCall("get", name, None, get(registry, name), registry))
    /\ UNCHANGED <<registry, target_dir, existing_files>>
    /\ UNCHANGED cliVars

Serialize ==
    /\ CallsMade < MaxOps
    /\ \E json \in registry_to_json(registry) :
          calls' = Append(calls, RegistryCall("to_json", "", None, Some(json), registry))
    /\ UNCHANGED <<registry, target_dir, existing_files>>
    /\ UNCHANGED cliVars

\* an index is written out and read back
Restore ==
    /\ CallsMade < MaxOps
    /\ \E json \in registry_to_json(registry) :
         \E restored \in {registry_from_json(json)} :
            /\ registry' = restored
            /\ calls' = Append(calls, RegistryCall("from_json", "", None, Some(json), restored))
    /\ UNCHANGED <<target_dir, existing_files>>
    /\ UNCHANGED cliVars

NextRegistry == Register \/ Remove \/ Lookup \/ Serialize \/ Restore

SpecRegistry == InitRegistry /\ [][NextRegistry]_vars

\* ---------------------------------------------- claims about RegistryIndex

\* the lowercase form of the model's names, letter by letter
Lowercase ==
    [n \in {"Dialog", "DIALOG", "dialog", "Tabs", "TABS", "tabs", "dia"} |->
        IF n \in {"Dialog", "DIALOG", "dialog"} THEN "dialog"
        ELSE IF n \in {"Tabs", "TABS", "tabs"} THEN "tabs"
        ELSE n]

\* the register and remove calls among the first n calls that name lower
ChangesOf(lower, n) ==
    {i \in 1..n : calls[i].op \in {"register", "remove"} /\ Lowercase[calls[i].name] = lower}

\* the entry most recently registered under lower among the first n calls
\* and not removed since
LatestRegistered(lower, n) ==
    IF ChangesOf(lower, n) = {} THEN None
    ELSE LET last == CHOOSE i \in ChangesOf(lower, n) : \A j \in ChangesOf(lower, n) : j <= i
         IN  IF calls[last].op = "register" THEN calls[last].entry ELSE None

\* C16: under any sequence of register and remove calls the index holds at
\* most one entry per lowercase name: len() is the number of lowercase names
\* registered and not removed since, get(n) is the entry most recently
\* registered under a name with the lowercase form of n, for every casing
\* of n, and None for any other n; remove returns the entry it removes
C16_OneEntryPerLowercaseName ==
    /\ len(registry) =
          Cardinality({l \in {"dialog", "tabs"} : Len(LatestRegistered(l, Len(calls))) = 1})
    /\ \A n \in LookupNames :
          get(registry, n) = LatestRegistered(Lowercase[n], Len(calls))
    /\ \A i \in 1..Len(calls) :
          calls[i].op \in {"get", "remove"} =>
             calls[i].returned = LatestRegistered(Lowercase[calls[i].name], i - 1)

C16_Witness ==
    /\ Len(calls) = 3
    /\ calls[1].op = "register" /\ calls[1].name = "Dialog"
    /\ calls[2].op = "register" /\ calls[2].name = "DIALOG"
    /\ calls[2].entry # calls[1].entry
    /\ calls[3].op = "get" /\ calls[3].name = "dialog"
    /\ calls[3].returned = calls[2].entry
    /\ len(registry) = 1
    /\ get(registry, "dia") = None

\* C17: two indexes that hold the same (key, entry) pairs serialize to the
\* same JSON text, however they were built
C17_ByteStableRegistryJson ==
    \A i, j \in 1..Len(calls) :
        (/\ calls[i].op \in {"to_json", "from_json"}
         /\ calls[j].op \in {"to_json", "from_json"}
         /\ calls[i].index = calls[j].index)
           => calls[i].returned = calls[j].returned

\* ------------------------------------------------- the plan's round trip

\* --target-dir: a directory with a UTF-8 name and one without
RoundTripDirs == TargetDirs \cup { << <<"proj">>, InvalidUtf8 >> }

InitRoundTrip ==
    /\ \E e \in Entries : registry = register(EmptyMap, e)
    /\ target_dir \in RoundTripDirs
    /\ \E k \in DOMAIN registry :
          existing_files \in
             BoundedSubsets(ExistingChoices(target_dir, registry[k].name), MaxExisting)
    /\ calls = <<>>
    /\ CliAtRest

\* a plan is generated, serialized and read back with from_json; cmd_plan
\* prints it in the success envelope and cmd_apply reads what was printed
RoundTrip ==
    /\ Len(calls) < 1
    /\ \E k \in DOMAIN registry :
         \E p \in {generate_plan(registry[k], target_dir, existing_files)} :
            \E json \in to_json(p), printed \in output_to_json(CliOutput_success(p)) :
               calls' = Append(calls,
                          [entry |-> registry[k], root |-> target_dir,
                           existing_files |-> existing_files,
                           plan |-> p, json |-> json,
                           restored |-> IF Len(json) = 0 THEN None
                                        ELSE from_json(json[1]),
                           printed |-> printed,
                           applied |-> IF Len(printed) = 0 THEN None
                                       ELSE parse_plan_file(printed[1])])
    /\ UNCHANGED <<registry, target_dir, existing_files>>
    /\ UNCHANGED cliVars

NextRoundTrip == RoundTrip

SpecRoundTrip == InitRoundTrip /\ [][NextRoundTrip]_vars

\* C18 as the spec has it: every plan generate_plan returns is given back
\* by from_json(to_json()), bare and in the output envelope
C18_Original ==
    \A i \in 1..Len(calls) :
        /\ calls[i].restored = Some(calls[i].plan)
        /\ calls[i].applied = Some(calls[i].plan)

\* C18: a plan generated for a target directory whose path is valid UTF-8
\* serializes, and from_json gives back a plan equal to it in every field,
\* bare and when cmd_apply reads it out of the output envelope; for a
\* target directory that is not valid UTF-8 to_json returns an error and
\* there is no text to read back
C18_PlanRoundTrip ==
    \A i \in 1..Len(calls) :
        IF valid_utf8(calls[i].root)
        THEN /\ Len(calls[i].json) = 1
             /\ calls[i].restored = Some(calls[i].plan)
             /\ Len(calls[i].printed) = 1
             /\ calls[i].applied = Some(calls[i].plan)
        ELSE /\ calls[i].json = None
             /\ calls[i].printed = None

C18_Witness ==
    \E i \in 1..Len(calls) :
        /\ valid_utf8(calls[i].root)
        /\ Len(calls[i].plan.conflicts) > 0
        /\ Cardinality(DOMAIN calls[i].plan.file_checksums) >= 2
        /\ Len(calls[i].plan.provenance_actions) >= 2
        /\ calls[i].restored = Some(calls[i].plan)
        /\ calls[i].applied = Some(calls[i].plan)

\* ------------------------------------------------------ ComponentContract

\* props of a contract
MaxProps == 2

\* PropDef, with the fields validate reads
PropDefs ==
    [name : {"open"}, required : BOOLEAN, default_value : {None, Some(<<"false">>)}]

\* ComponentContract::states: none, a state no rule names, two and four of
\* the states the rules name, and one state listed twice
StateLists ==
    { <<>>, <<"Active">>, <<"Disabled", "Readonly">>, <<"Focused", "Hover">>,
      <<"Hover", "Active", "Focused", "Disabled", "Readonly">>,
      <<"Disabled", "Disabled">> }

\* InteractionChecklist, with the fields validate reads
InteractionChecklists ==
    [focus_behavior : {None, Some(<<"text">>)},
     pointer_behavior : {None, Some(<<"text">>)},
     disabled_behavior : {None, Some(<<"text">>)},
     readonly_behavior : {None, Some(<<"text">>)}]

\* ComponentContract, with the fields validate reads
Contracts ==
    [name : {"", "Dialog"}, version : {"", "0.1.0"},
     props : SeqsUpTo(PropDefs, MaxProps), states : StateLists,
     interaction_checklist : InteractionChecklists]

ValidationError(field, message) == [field |-> field, message |-> message]

\* Vec::contains
vec_contains(seq, x) == \E i \in 1..Len(seq) : seq[i] = x

\* the errors of the rules of validate, rule by rule in the code's order
name_errors(c) ==
    IF c.name = ""
    THEN <<ValidationError(<<"name">>, <<"Component name must not be empty">>)>>
    ELSE <<>>

version_errors(c) ==
    IF c.version = ""
    THEN <<ValidationError(<<"version">>, <<"Version must not be empty">>)>>
    ELSE <<>>

props_errors(c) ==
    IF Len(c.props) = 0
    THEN <<ValidationError(<<"props">>, <<"At least one prop must be defined">>)>>
    ELSE <<>>

states_errors(c) ==
    IF Len(c.states) = 0
    THEN <<ValidationError(<<"states">>, <<"At least one state must be listed">>)>>
    ELSE <<>>

\* the loop over props.iter().enumerate(), from the prop at position k on
RECURSIVE default_value_errors(_, _)
default_value_errors(c, k) ==
    IF k > Len(c.props) THEN <<>>
    ELSE (IF c.props[k].required /\ Len(c.props[k].default_value) = 1
          THEN <<ValidationError(<<"props[", ToString(k - 1), "].default_value">>,
                                 <<"Required prop '", c.props[k].name,
                                   "' should not have a default value">>)>>
          ELSE <<>>)
         \o default_value_errors(c, k + 1)

\* one state-dependent rule of the interaction checklist
checklist_error(c, state, field) ==
    IF vec_contains(c.states, state) /\ Len(c.interaction_checklist[field]) = 0
    THEN <<ValidationError(<<"interaction_checklist.", field>>,
                           <<state, " state is listed but ", field, " is not described">>)>>
    ELSE <<>>

checklist_errors(c) ==
    checklist_error(c, "Disabled", "disabled_behavior")
    \o checklist_error(c, "Readonly", "readonly_behavior")
    \o checklist_error(c, "Focused", "focus_behavior")
    \o checklist_error(c, "Hover", "pointer_behavior")

\* a validation that returns at the first rule that fails
validate_short_circuit(c) ==
    IF name_errors(c) # <<>> THEN name_errors(c)
    ELSE IF version_errors(c) # <<>> THEN version_errors(c)
    ELSE IF props_errors(c) # <<>> THEN props_errors(c)
    ELSE IF states_errors(c) # <<>> THEN states_errors(c)
    ELSE IF default_value_errors(c, 1) # <<>> THEN default_value_errors(c, 1)
    ELSE checklist_errors(c)

\* ComponentContract::validate
validate(c) ==
    name_errors(c) \o version_errors(c) \o props_errors(c) \o states_errors(c)
    \o default_value_errors(c, 1) \o checklist_errors(c)

InitValidate ==
    /\ registry = EmptyMap
    /\ target_dir \in TargetDirs
    /\ existing_files = {}
    /\ calls = <<>>
    /\ CliAtRest

\* a contract is validated
Validate ==
    /\ Len(calls) < 1
    /\ \E contract \in Contracts :
          calls' = Append(calls, [contract |-> contract, errors |-> validate(contract)])
    /\ UNCHANGED <<registry, target_dir, existing_files>>
    /\ UNCHANGED cliVars

NextValidate == Validate

SpecValidate == InitValidate /\ [][NextValidate]_vars

\* --------------------------------------------------- claims about validate

\* the locators of the rules a contract violates
ViolatedRules(c) ==
    {f \in { <<"name">> } : c.name = ""}
    \cup {f \in { <<"version">> } : c.version = ""}
    \cup {f \in { <<"props">> } : c.props = <<>>}
    \cup {f \in { <<"states">> } : c.states = <<>>}
    \cup { <<"props[", ToString(i - 1), "].default_value">> :
             i \in {j \in 1..Len(c.props) :
                       c.props[j].required /\ c.props[j].default_value # None} }
    \cup { <<"interaction_checklist.", pair[2]>> :
             pair \in {q \in { <<"Disabled", "disabled_behavior">>,
                                <<"Readonly", "readonly_behavior">>,
                                <<"Focused", "focus_behavior">>,
                                <<"Hover", "pointer_behavior">> } :
                         /\ \E k \in 1..Len(c.states) : c.states[k] = q[1]
                         /\ c.interaction_checklist[q[2]] = None} }

\* the contract is well-formed, as the spec defines it
WellFormed(c) ==
    /\ c.name # ""
    /\ c.version # ""
    /\ Len(c.props) >= 1
    /\ Len(c.states) >= 1
    /\ \A i \in 1..Len(c.props) : ~(c.props[i].required /\ c.props[i].default_value # None)
    /\ \A k \in 1..Len(c.states) :
          /\ c.states[k] = "Disabled" => c.interaction_checklist.disabled_behavior # None
          /\ c.states[k] = "Readonly" => c.interaction_checklist.readonly_behavior # None
          /\ c.states[k] = "Focused" => c.interaction_checklist.focus_behavior # None
          /\ c.states[k] = "Hover" => c.interaction_checklist.pointer_behavior # None

\* C19: validate returns exactly one error for each rule the contract
\* violates, located at the rule's field, so a contract violating k rules
\* yields k errors and the list is empty iff the contract is well-formed
C19_CompleteValidation ==
    \A i \in 1..Len(calls) :
        /\ {calls[i].errors[j].field : j \in 1..Len(calls[i].errors)}
              = ViolatedRules(calls[i].contract)
        /\ Len(calls[i].errors) = Cardinality(ViolatedRules(calls[i].contract))
        /\ (calls[i].errors = <<>>) <=> WellFormed(calls[i].contract)

C19_Witness ==
    \E i \in 1..Len(calls) :
        /\ calls[i].contract.name = ""
        /\ calls[i].contract.version = ""
        /\ Len(calls[i].contract.props) = 2
        /\ Len(calls[i].errors) = 8
        /\ calls[i].errors[3].field = <<"props[", "0", "].default_value">>
        /\ calls[i].errors[4].field = <<"props[", "1", "].default_value">>
        /\ calls[i].errors[8].field = <<"interaction_checklist.", "pointer_behavior">>

\* ------------------------------------------------------ serialized installs

\* two registered components, each with its own source file
InstallEntries ==
    { [name |-> "Dialog", version |-> "0.1.0",
       required_files |-> << << <<"crates">>, <<"components">>, <<"src">>,
                                <<"dialog", "rs">> >> >>],
      [name |-> "Tabs", version |-> "0.1.0",
       required_files |-> << << <<"crates">>, <<"components">>, <<"src">>,
                                <<"tabs", "rs">> >> >>] }

\* a registry of both components and a project in which neither is
\* installed; the shared module file is whatever ModuleChoices has
InitInstall ==
    /\ \E first \in InstallEntries :
         \E second \in InstallEntries \ {first} :
            registry = register(register(EmptyMap, first), second)
    /\ target_dir \in TargetDirs
    /\ plan_file = None
    /\ faults = EmptyMap
    /\ \E module \in ModuleChoices :
         \E fs \in {Project(target_dir, "Dialog", module, "absent")} :
            /\ files = fs.files
            /\ dirs = fs.dirs
            /\ before = fs
    /\ existing_files = {}
    /\ calls = <<>>
    /\ pc = "idle"
    /\ cmd = NoCommand
    /\ plan = None
    /\ idx = 0
    /\ attempted = <<>>
    /\ result = None
    /\ output = None
    /\ exit_code = None
    /\ log = <<>>

SpecInstall == InitInstall /\ [][NextCli]_vars

\* log[i] and log[j] are successful installs of two different components,
\* one after the other
InstalledInTurn(i, j) ==
    /\ i < j
    /\ Succeeded(log[i])
    /\ Succeeded(log[j])
    /\ log[i].plan[1].component_name # log[j].plan[1].component_name

\* C20: after the plans of two registered components have been applied one
\* after the other, in either order, the shared module file holds the
\* export line of each exactly once, and every file the earlier install
\* created is as that install left it
C20_InstallsAccumulate ==
    \A i, j \in 1..Len(log) :
        InstalledInTurn(i, j) =>
           /\ module_file(target_dir) \in DOMAIN log[j].after.files
           /\ \A k \in {i, j} :
                 Occurrences(log[j].after.files[module_file(target_dir)],
                             <<"pub mod ", to_lowercase(log[k].plan[1].component_name), ";">>)
                    = 1
           /\ \A m \in 1..Len(log[i].plan[1].mutations) :
                 log[i].plan[1].mutations[m].action = "create" =>
                    /\ log[i].plan[1].mutations[m].file_path \in DOMAIN log[j].after.files
                    /\ log[j].after.files[log[i].plan[1].mutations[m].file_path]
                          = log[i].plan[1].mutations[m].content
                    /\ log[i].after.files[log[i].plan[1].mutations[m].file_path]
                          = log[i].plan[1].mutations[m].content

C20_Witness ==
    /\ Len(log) = 2
    /\ InstalledInTurn(1, 2)
    /\ log[1].plan[1].component_name = "Tabs"
    /\ log[2].plan[1].component_name = "Dialog"
    /\ module_file(target_dir) \in DOMAIN log[1].before.files
    /\ log[1].before.files[module_file(target_dir)] = <<"old">>
    /\ Cardinality(DOMAIN log[2].after.files) >= 5

\* ------------------------------------------------- one mutation at a time

\* the mutations one behaviour applies
MaxMutations == 2

\* what the target file is before the mutation: the choices of the shared
\* module file, and texts that end in a line feed, are a line feed only, or
\* hold the export line inside a comment
MutationTargets ==
    ModuleChoices
    \cup { <<"file", <<"old", "\n">> >>, <<"file", <<"\n">> >>,
           <<"file", <<"// ", "pub mod ", "dialog", ";">> >> }

\* the mutations applied to target: every action and strategy, with an
\* empty content, the export line and another text
MutationChoices(target) ==
    {FileMutation(kind[1], target, kind[2], content, <<"a mutation">>) :
        kind \in { <<"create", "write_file">>, <<"modify", "append_export">>,
                   <<"modify", "insert_use">>, <<"modify", "replace_section">>,
                   <<"delete", "delete_file">> },
        content \in { <<>>, export_line("Dialog"), <<"old">> }}

InitMutation ==
    /\ registry = EmptyMap
    /\ target_dir \in TargetDirs
    /\ plan_file = None
    /\ faults \in FaultChoices(target_dir, "Dialog")
    /\ \E target \in MutationTargets :
         \E fs \in {Project(target_dir, "Dialog", target, "absent")} :
            /\ files = fs.files
            /\ dirs = fs.dirs
            /\ before = fs
    /\ existing_files = {}
    /\ calls = <<>>
    /\ pc = "idle"
    /\ cmd = NoCommand
    /\ plan = None
    /\ idx = 0
    /\ attempted = <<>>
    /\ result = None
    /\ output = None
    /\ exit_code = None
    /\ log = <<>>

\* apply_mutation is called on the shared module file
ApplyOne ==
    /\ Len(calls) < MaxMutations
    /\ \E m \in MutationChoices(module_file(target_dir)) :
         \E r \in {apply_mutation(FileSystem(files, dirs), faults, m)} :
            /\ files' = r.fs.files
            /\ dirs' = r.fs.dirs
            /\ calls' = Append(calls, [mutation |-> m, ok |-> r.ok,
                                       before |-> FileSystem(files, dirs),
                                       after |-> r.fs])
    /\ UNCHANGED <<registry, target_dir, existing_files, faults, plan_file, pc, cmd,
                   plan, idx, attempted, result, output, exit_code, before, log>>

NextMutation == ApplyOne

SpecMutation == InitMutation /\ [][NextMutation]_vars

\* ---------------------------------------------- claims about apply_mutation

\* the content of the file at p, a missing file counting as empty
ContentOrEmpty(fs, p) == IF p \in DOMAIN fs.files THEN fs.files[p] ELSE <<>>

\* the call applied a Modify with the strategy and returned Ok
ModifiedWith(call, strategy) ==
    /\ call.mutation.action = "modify"
    /\ call.mutation.strategy = strategy
    /\ call.ok

\* every file but the one at p is as it was
OthersUnchanged(call, p) ==
    /\ DOMAIN call.after.files \ {p} = DOMAIN call.before.files \ {p}
    /\ \A q \in DOMAIN call.before.files \ {p} : call.after.files[q] = call.before.files[q]

C22_InsertUse ==
    \A i \in 1..Len(calls) :
        (calls[i].mutation.action = "modify" /\ calls[i].mutation.strategy = "insert_use") =>
           LET p == calls[i].mutation.file_path
               C == calls[i].mutation.content
           IN  /\ p \notin DOMAIN calls[i].before.files =>
                     (~calls[i].ok /\ calls[i].after = calls[i].before)
               /\ calls[i].ok =>
                     /\ OthersUnchanged(calls[i], p)
                     /\ calls[i].after.dirs = calls[i].before.dirs
                     /\ calls[i].after.files[p] =
                           IF Occurrences(calls[i].before.files[p], C) > 0
                           THEN calls[i].before.files[p]
                           ELSE C \o <<"\n">> \o calls[i].before.files[p]
               /\ (/\ i > 1
                   /\ calls[i - 1].mutation = calls[i].mutation
                   /\ calls[i - 1].ok
                   /\ calls[i].ok) => calls[i].after = calls[i].before

C22_Witness ==
    /\ Len(calls) = 2
    /\ calls[1].mutation.strategy = "insert_use"
    /\ calls[1].mutation.content = export_line("Dialog")
    /\ calls[1].ok
    /\ calls[1].before.files[module_file(target_dir)] = <<"old">>
    /\ calls[1].after.files[module_file(target_dir)]
          = <<"pub mod ", "dialog", ";", "\n", "old">>
    /\ calls[2].mutation = calls[1].mutation
    /\ calls[2].ok

\* --------------------------------------------------------- claims on Create

\* the call of apply_mutation that has just returned Ok was for a Create
CreateJustApplied ==
    /\ pc \in {"mutations", "provenance"}
    /\ Len(attempted) > 0
    /\ attempted[Len(attempted)].ok
    /\ plan[1].mutations[attempted[Len(attempted)].index + 1].action = "create"

\* C23: a Create that succeeds leaves its target's parent directories in
\* place and the target file equal to the mutation's content, whatever the
\* file held before and whether or not the plan's conflicts list the path;
\* `apply <plan-file>` calls apply_mutation for the first mutation of any
\* plan it has read, conflicts or not
C23_CreateOverwrites ==
    /\ CreateJustApplied =>
          \E m \in {plan[1].mutations[attempted[Len(attempted)].index + 1]} :
             /\ m.file_path \in DOMAIN files
             /\ files[m.file_path] = m.content
             /\ Ancestors(m.file_path) \ {<<>>} \subseteq dirs
    /\ \A k \in 1..Len(log) :
          (/\ log[k].cmd = "apply"
           /\ Len(log[k].plan) = 1
           /\ Len(log[k].plan[1].mutations) > 0) =>
              /\ Len(log[k].attempted) > 0
              /\ log[k].attempted[1].index = 0

\* `apply` of a plan whose conflicts list the path of the Create that has
\* just replaced the old content of the file there
C23_Witness ==
    /\ CreateJustApplied
    /\ cmd = "apply"
    /\ \E m \in {plan[1].mutations[attempted[Len(attempted)].index + 1]} :
          /\ \E i \in 1..Len(plan[1].conflicts) : plan[1].conflicts[i].file_path = m.file_path
          /\ m.file_path \in DOMAIN before.files
          /\ before.files[m.file_path] = <<"old">>
          /\ files[m.file_path] = m.content
          /\ m.content # <<"old">>

\* ------------------------------------------------- claims on generated plans

\* C24: in every generated plan, the checksum recorded under the path of
\* each Create mutation is the checksum of that mutation's content
C24_ChecksumMatchesContent ==
    \A c \in 1..Len(calls) :
       \A i \in 1..Len(calls[c].plan.mutations) :
          \E m \in {calls[c].plan.mutations[i]} :
             m.action = "create" =>
                /\ m.file_path \in DOMAIN calls[c].plan.file_checksums
                /\ calls[c].plan.file_checksums[m.file_path] = simple_checksum(m.content)

\* C26: in every generated plan, provenance_actions has one element per
\* required_files entry, in order, and the i-th one names the path of the
\* i-th Create mutation, the file installed for required_files[i]
C26_ProvenanceMatchesCreates ==
    \A c \in 1..Len(calls) :
       /\ Len(calls[c].plan.provenance_actions) = Len(calls[c].entry.required_files)
       /\ \A i \in 1..Len(calls[c].plan.provenance_actions) :
             /\ calls[c].plan.provenance_actions[i].source
                   = PathStr(calls[c].entry.required_files[i])
             /\ calls[c].plan.mutations[i].action = "create"
             /\ calls[c].plan.provenance_actions[i].file_path
                   = calls[c].plan.mutations[i].file_path

\* ---------------------------------------------------- claims on repeated add

\* the paths of a plan's Create mutations, in order
CreateTargets(p) ==
    [i \in 1..Len(SelectSeq(p.mutations, LAMBDA m : m.action = "create")) |->
        SelectSeq(p.mutations, LAMBDA m : m.action = "create")[i].file_path]

\* the paths of a plan's conflicts, in order
ConflictPaths(p) == [i \in 1..Len(p.conflicts) |-> p.conflicts[i].file_path]

\* log[k] is an `add` that succeeded and log[k + 1] is the next command, an
\* `add` of the same component
AddRepeated(k) ==
    /\ k + 1 <= Len(log)
    /\ log[k].cmd = "add"
    /\ Succeeded(log[k])
    /\ log[k + 1].cmd = "add"
    /\ Len(log[k + 1].plan) = 1
    /\ log[k + 1].plan[1].component_name = log[k].plan[1].component_name

\* C29: an `add` that follows a successful `add` of the same component
\* generates the same mutations with one conflict for every Create target,
\* prints the failure envelope and leaves the filesystem as the first `add`
\* left it
C29_SecondAddRefused ==
    \A k \in 1..Len(log) :
       AddRepeated(k) =>
          /\ log[k + 1].plan[1].mutations = log[k].plan[1].mutations
          /\ ConflictPaths(log[k + 1].plan[1]) = CreateTargets(log[k].plan[1])
          /\ Len(log[k + 1].output) = 1
          /\ log[k + 1].output[1].success = FALSE
          /\ log[k + 1].output[1].data = log[k + 1].plan[1]
          /\ log[k + 1].attempted = <<>>
          /\ log[k + 1].before = log[k].after
          /\ log[k + 1].after = log[k].after

\* the second `add` of a component with a source file and a module file,
\* after a first one that changed the project
C29_Witness ==
    \E k \in 1..Len(log) :
       /\ AddRepeated(k)
       /\ Len(CreateTargets(log[k].plan[1])) >= 2
       /\ log[k].after # log[k].before
       /\ Len(log[k + 1].plan[1].conflicts) >= 2

\* ------------------------------------------ the export in the module file

\* what the shared module file may hold before the first command: the
\* contents above, the export line inside a comment, the export line
\* followed by a comment, and the export line with no line feed after it
ExportModuleChoices ==
    ModuleChoices
    \cup { <<"file", <<"// ", "pub mod ", "dialog", ";", "\n">> >>,
           <<"file", <<"pub mod ", "dialog", ";", " // ui", "\n">> >>,
           <<"file", <<"pub mod ", "dialog", ";">> >> }

InitExport ==
    /\ \E e \in CliEntries : registry = register(EmptyMap, e)
    /\ target_dir \in TargetDirs
    /\ plan_file = None
    /\ faults \in FaultChoices(target_dir, "Dialog")
    /\ \E module \in ExportModuleChoices :
         \E fs \in {Project(target_dir, "Dialog", module, "absent")} :
            /\ files = fs.files
            /\ dirs = fs.dirs
            /\ before = fs
    /\ existing_files = {}
    /\ calls = <<>>
    /\ pc = "idle"
    /\ cmd = NoCommand
    /\ plan = None
    /\ idx = 0
    /\ attempted = <<>>
    /\ result = None
    /\ output = None
    /\ exit_code = None
    /\ log = <<>>

SpecExport == InitExport /\ [][NextCli]_vars

\* the lines of a text
Lines(text) == Split(text, "\n")

\* the text has a line that is exactly `line`
HasLine(text, line) == \E i \in 1..Len(Lines(text)) : Lines(text)[i] = line

\* the export line of the plan's component
ExportOf(rec) == export_line(rec.plan[1].component_name)

\* the module file of the project as a record's command found and left it
ModuleBefore(rec) == ContentOrEmpty(rec.before, module_file(target_dir))

ModuleAfter(rec) == ContentOrEmpty(rec.after, module_file(target_dir))

\* C30 as stated: after apply_plan succeeds on a generated plan the module
\* file has the component's export line as a line of its own
C30_Original ==
    \A k \in 1..Len(log) :
       Succeeded(log[k]) =>
          /\ module_file(target_dir) \in DOMAIN log[k].after.files
          /\ HasLine(ModuleAfter(log[k]), ExportOf(log[k]))

\* C30: after apply_plan succeeds on a generated plan the module file
\* exists and contains the component's export line; the line is a line of
\* its own if the file did not contain the export line before or had it as
\* a line of its own, and a file that contained it is left as it was
C30_ExportInstalled ==
    \A k \in 1..Len(log) :
       Succeeded(log[k]) =>
          /\ module_file(target_dir) \in DOMAIN log[k].after.files
          /\ contains(ModuleAfter(log[k]), ExportOf(log[k]))
          /\ (\/ ~contains(ModuleBefore(log[k]), ExportOf(log[k]))
              \/ HasLine(ModuleBefore(log[k]), ExportOf(log[k])))
                => HasLine(ModuleAfter(log[k]), ExportOf(log[k]))
          /\ contains(ModuleBefore(log[k]), ExportOf(log[k]))
                => ModuleAfter(log[k]) = ModuleBefore(log[k])

\* an `add` that succeeded on a module file holding the export line inside
\* a comment only, and left it so
C30_Witness ==
    \E k \in 1..Len(log) :
       /\ log[k].cmd = "add"
       /\ Succeeded(log[k])
       /\ ModuleBefore(log[k]) = <<"// ", "pub mod ", "dialog", ";", "\n">>
       /\ ModuleAfter(log[k]) = ModuleBefore(log[k])
       /\ ~HasLine(ModuleAfter(log[k]), ExportOf(log[k]))

\* ------------------------------------------- checksums and the files on disk

\* required_files of the entries installed here: one source, two sources
\* with one file name, a source named like the module file, and a source
\* named like the provenance sidecar of the one before it
ChecksumFileLists ==
    { << << <<"crates">>, <<"components">>, <<"src">>, <<"dialog", "rs">> >> >>,
      << << <<"crates">>, <<"components">>, <<"src">>, <<"dialog", "rs">> >>,
         << <<"vendor">>, <<"dialog", "rs">> >> >>,
      << << <<"src">>, <<"mod", "rs">> >> >>,
      << << <<"crates">>, <<"components">>, <<"src">>, <<"dialog", "rs">> >>,
         << <<"vendor">>, <<"dialog", "provenance", "json">> >> >> }

ChecksumEntries ==
    [name : {"Dialog"}, version : Versions, required_files : ChecksumFileLists]

InitChecksums ==
    /\ \E e \in ChecksumEntries : registry = register(EmptyMap, e)
    /\ target_dir \in TargetDirs
    /\ plan_file = None
    /\ faults \in FaultChoices(target_dir, "Dialog")
    /\ \E module \in ModuleChoices, component \in ComponentChoices :
         \E fs \in {Project(target_dir, "Dialog", module, component)} :
            /\ files = fs.files
            /\ dirs = fs.dirs
            /\ before = fs
    /\ existing_files = {}
    /\ calls = <<>>
    /\ pc = "idle"
    /\ cmd = NoCommand
    /\ plan = None
    /\ idx = 0
    /\ attempted = <<>>
    /\ result = None
    /\ output = None
    /\ exit_code = None
    /\ log = <<>>

SpecChecksums == InitChecksums /\ [][NextCli]_vars

\* C27: after apply_plan has succeeded, every path of the plan's
\* file_checksums is a file whose content has the recorded checksum
C27_ChecksumsDescribeDisk ==
    \A k \in 1..Len(log) :
       Succeeded(log[k]) =>
          \A p \in DOMAIN log[k].plan[1].file_checksums :
             /\ p \in DOMAIN log[k].after.files
             /\ simple_checksum(log[k].after.files[p])
                   = log[k].plan[1].file_checksums[p]

\* ------------------------------------------------------- what apply touches

\* the project the plan file was generated for
PlanRoot == << <<"proj">> >>

\* --target-dir: the plan's project, or another directory
FrameDirs == {PlanRoot, << <<"vendor">> >>}

\* a file of the project that no plan names
Bystander == Append(PlanRoot, <<"dialog", "txt">>)

InitFrame ==
    /\ \E e \in CliEntries :
          /\ registry = register(EmptyMap, e)
          /\ plan_file \in PlanFiles(e, PlanRoot)
    /\ target_dir \in FrameDirs
    /\ faults \in FaultChoices(PlanRoot, "Dialog")
    /\ \E module \in {<<"absent">>, <<"file", <<"old">> >>},
          component \in {"absent", "installed"} :
         \E fs \in {Project(PlanRoot, "Dialog", module, component)} :
            /\ files = MapInsert(fs.files, Bystander, <<"old">>)
            /\ dirs = fs.dirs
            /\ before = FileSystem(MapInsert(fs.files, Bystander, <<"old">>), fs.dirs)
    /\ existing_files = {}
    /\ calls = <<>>
    /\ pc = "idle"
    /\ cmd = NoCommand
    /\ plan = None
    /\ idx = 0
    /\ attempted = <<>>
    /\ result = None
    /\ output = None
    /\ exit_code = None
    /\ log = <<>>

SpecFrame == InitFrame /\ [][NextCli]_vars

\* the paths whose file was created, changed or removed between fs0 and fs1
ChangedFiles(fs0, fs1) ==
    {p \in (DOMAIN fs0.files) \cup (DOMAIN fs1.files) :
        \/ p \notin DOMAIN fs0.files
        \/ p \notin DOMAIN fs1.files
        \/ fs0.files[p] # fs1.files[p]}

\* the paths plan p names: its mutations' targets and its sidecars
NamedPaths(p) ==
    {p.mutations[i].file_path : i \in 1..Len(p.mutations)}
    \cup {Sidecar(p.provenance_actions[i]) : i \in 1..Len(p.provenance_actions)}

\* the directories above the targets of the plan's Create and AppendExport
\* mutations
NamedParents(p) ==
    UNION {Ancestors(p.mutations[i].file_path) :
             i \in {j \in 1..Len(p.mutations) :
                      \/ p.mutations[j].action = "create"
                      \/ p.mutations[j].strategy = "append_export"}}

\* between fs0 and fs1 only what plan p names was touched
WithinFrame(fs0, fs1, p) ==
    /\ ChangedFiles(fs0, fs1) \subseteq NamedPaths(p)
    /\ fs0.dirs \subseteq fs1.dirs
    /\ fs1.dirs \ fs0.dirs \subseteq NamedParents(p)

append_export_read(fs, flt, m) ==
    LET p    == m.file_path
        made == IF exists(fs, p) THEN IoOk(fs)
                ELSE create_dir_all(fs, flt, Parent(p))
        read == IF exists(fs, p) THEN read_to_string(fs, p) ELSE Some(<<>>)
    IN  IF read = None THEN [ok |-> FALSE, fs |-> fs, existing |-> None]
        ELSE IF ~made.ok THEN [ok |-> FALSE, fs |-> made.fs, existing |-> None]
        ELSE [ok |-> TRUE, fs |-> made.fs, existing |-> read]

\* AppendExport from the containment test on, with the text it read before
append_export_write(fs, flt, m, existing) ==
    IF export_present(existing, m.content) THEN Applied(fs)
    ELSE LET written ==
                fs_write(fs, flt, m.file_path, export_appended(existing, m.content))
         IN  IF written.ok THEN Applied(written.fs)
             ELSE Failed(written.fs, <<"Failed to modify file: ">> \o PathStr(m.file_path))

\* the two processes, each running apply_plan
Procs == {1, 2}

\* the component each process installs
ProcEntry(i) ==
    CHOOSE e \in InstallEntries : e.name = (IF i = 1 THEN "Dialog" ELSE "Tabs")

\* a process of apply_plan: its plan, where it stands, its loop index, the
\* module text its AppendExport has read, and how it ended
Process(p, at, i, text, status) ==
    [plan |-> p, pc |-> at, idx |-> i, existing |-> text, status |-> status]

\* where apply_plan goes after mutation i (0-based) of plan p succeeded
after_mutation(p, i) ==
    IF enumerate_next(i) < Len(p.mutations) THEN "mutations" ELSE "provenance"

InitConcurrent ==
    /\ registry = register(register(EmptyMap, ProcEntry(1)), ProcEntry(2))
    /\ target_dir \in TargetDirs
    /\ faults \in FaultChoices(target_dir, "Dialog")
    /\ \E module \in ModuleChoices :
         \E fs \in {Project(target_dir, "Dialog", module, "absent")} :
            /\ files = fs.files
            /\ dirs = fs.dirs
            /\ before = fs
    /\ calls = [i \in Procs |->
                  Process(generate_plan(ProcEntry(i), target_dir, {}),
                          "mutations", 0, None, "running")]
    /\ existing_files = {}
    /\ plan_file = None
    /\ pc = "idle"
    /\ cmd = NoCommand
    /\ plan = None
    /\ idx = 0
    /\ attempted = <<>>
    /\ result = None
    /\ output = None
    /\ exit_code = None
    /\ log = <<>>

\* the current mutation of process i
Current(i) == calls[i].plan.mutations[calls[i].idx + 1]

\* process i has taken a step
Stepped(i, fs, proc) ==
    /\ files' = fs.files
    /\ dirs' = fs.dirs
    /\ calls' = [calls EXCEPT ![i] = proc]
    /\ log' = Append(log, i)
    /\ UNCHANGED <<registry, target_dir, existing_files, faults, plan_file, pc, cmd,
                   plan, idx, attempted, result, output, exit_code, before>>

\* process i runs apply_mutation for a mutation other than AppendExport
ProcMutate(i) ==
    /\ calls[i].pc = "mutations"
    /\ Current(i).strategy # "append_export"
    /\ \E r \in {apply_mutation(FileSystem(files, dirs), faults, Current(i))} :
          Stepped(i, r.fs,
                  IF r.ok
                  THEN Process(calls[i].plan, after_mutation(calls[i].plan, calls[i].idx),
                               enumerate_next(calls[i].idx), None, "running")
                  ELSE Process(calls[i].plan, "done", calls[i].idx, None, "failed"))

\* process i starts AppendExport: it reads the module file
ProcReadExport(i) ==
    /\ calls[i].pc = "mutations"
    /\ Current(i).strategy = "append_export"
    /\ \E r \in {append_export_read(FileSystem(files, dirs), faults, Current(i))} :
          Stepped(i, r.fs,
                  IF r.ok
                  THEN Process(calls[i].plan, "write", calls[i].idx, r.existing, "running")
                  ELSE Process(calls[i].plan, "done", calls[i].idx, None, "failed"))

\* process i finishes AppendExport with the text it read
ProcWriteExport(i) ==
    /\ calls[i].pc = "write"
    /\ \E r \in {append_export_write(FileSystem(files, dirs), faults, Current(i),
                                      calls[i].existing[1])} :
          Stepped(i, r.fs,
                  IF r.ok
                  THEN Process(calls[i].plan, after_mutation(calls[i].plan, calls[i].idx),
                               enumerate_next(calls[i].idx), None, "running")
                  ELSE Process(calls[i].plan, "done", calls[i].idx, None, "failed"))

\* process i writes its sidecars and returns Ok
ProcProvenance(i) ==
    /\ calls[i].pc = "provenance"
    /\ \E fs \in {write_provenance(FileSystem(files, dirs), faults,
                                   calls[i].plan.provenance_actions, 1)} :
          Stepped(i, fs, Process(calls[i].plan, "done", calls[i].idx, None, "ok"))

NextConcurrent ==
    \E i \in Procs :
       \/ ProcMutate(i)
       \/ ProcReadExport(i)
       \/ ProcWriteExport(i)
       \/ ProcProvenance(i)

SpecConcurrent == InitConcurrent /\ [][NextConcurrent]_vars

\* both applies have returned Ok
BothSucceeded == \A i \in Procs : calls[i].pc = "done" /\ calls[i].status = "ok"

\* one apply took all its steps before the other took its first
Serialized ==
    \E first \in Procs :
       \A a, b \in 1..Len(log) : (log[a] = first /\ log[b] # first) => a < b

\* the module file has the export line of process i's component
ExportInstalled(i) ==
    /\ module_file(target_dir) \in DOMAIN files
    /\ HasLine(files[module_file(target_dir)], export_line(ProcEntry(i).name))

\* C25: two applies for two components that run one after the other, in
\* either order, and both succeed leave both export lines in the shared
\* module file; AppendExport's separate read and write let two overlapping
\* applies both succeed with one of the lines lost (the witness)
C25_SerializedKeepsBoth ==
    (BothSucceeded /\ Serialized) => \A i \in Procs : ExportInstalled(i)

\* both applies have succeeded, their steps overlapped, and the module file
\* has the export line of one of them only
C25_Witness ==
    /\ BothSucceeded
    /\ ~Serialized
    /\ \E i \in Procs :
          /\ ExportInstalled(i)
          /\ \A j \in Procs \ {i} :
                ~contains(files[module_file(target_dir)], export_line(ProcEntry(j).name))

====
